---- MODULE Spec2Model ----
(***************************************************************************)
(* Model of the Excel image extractor (src/0001-extract-images-from-excel/ *)
(* main.py), its application shell (src/common/app_base.py) and the        *)
(* filename helper (src/common/utils.py).                                  *)
(*                                                                         *)
(* Strings are sequences of one-character strings, so that trimming,       *)
(* replacing, truncating and formatting are computed character by          *)
(* character.  A character outside ASCII is written by its code point      *)
(* ("U672A").                                                              *)
(***************************************************************************)
EXTENDS Integers, Sequences, FiniteSets, TLC

(***************************************************************************)
(* Bounds of the model.                                                    *)
(***************************************************************************)
\* longest enumerated short string handed to the string functions
MaxStrLen == 3
\* how far past max_length the long inputs of get_safe_filename reach
MaxOver == 2
\* largest counter / start number handed to _make_name on its own
MaxCounter == 11

(***************************************************************************)
(* Characters.                                                             *)
(***************************************************************************)
\* the class [\\/*?:"<>|\r\n\t] of the re.sub in get_safe_filename
ForbiddenChars == {"\\", "/", "*", "?", ":", "\"", "<", ">", "|", "\r", "\n", "\t"}

\* what str.strip() with no argument removes (str.isspace): the ASCII ones
Whitespace == {" ", "\t", "\n", "\r", "\f"}

\* what name.strip(". ") removes
DotSpace == {".", " "}

Digits == <<"0", "1", "2", "3", "4", "5", "6", "7", "8", "9">>

DigitChars == {Digits[q] : q \in 1..10}

\* int() of one digit character
DigitValue(c) == (CHOOSE q \in 1..10 : Digits[q] = c) - 1

(***************************************************************************)
(* Python string primitives.                                               *)
(***************************************************************************)
RECURSIVE LStrip(_, _)
LStrip(s, chars) ==
    IF s # <<>> /\ Head(s) \in chars THEN LStrip(Tail(s), chars) ELSE s

RECURSIVE RStrip(_, _)
RStrip(s, chars) ==
    IF s # <<>> /\ s[Len(s)] \in chars
    THEN RStrip(SubSeq(s, 1, Len(s) - 1), chars)
    ELSE s

\* str.strip(chars)
StripChars(s, chars) == RStrip(LStrip(s, chars), chars)

\* str.strip()
Strip(s) == StripChars(s, Whitespace)

\* str.startswith(p)
StartsWith(s, p) == Len(s) >= Len(p) /\ SubSeq(s, 1, Len(p)) = p

\* str.endswith(p)
EndsWith(s, p) == Len(s) >= Len(p) /\ SubSeq(s, Len(s) - Len(p) + 1, Len(s)) = p

\* str.replace(old, new) for a non-empty old: left to right, non-overlapping
RECURSIVE Replace(_, _, _)
Replace(s, old, new) ==
    IF s = <<>> THEN <<>>
    ELSE IF StartsWith(s, old)
         THEN new \o Replace(SubSeq(s, Len(old) + 1, Len(s)), old, new)
         ELSE <<Head(s)>> \o Replace(Tail(s), old, new)

\* str(n) of an int: decimal, no padding, a leading "-" when negative
RECURSIVE NatToStr(_)
NatToStr(n) ==
    IF n < 10 THEN <<Digits[n + 1]>>
    ELSE NatToStr(n \div 10) \o <<Digits[(n % 10) + 1]>>

IntToStr(n) == IF n < 0 THEN <<"-">> \o NatToStr(0 - n) ELSE NatToStr(n)

\* int(s) of a run of digits
RECURSIVE StrToNat(_)
StrToNat(s) ==
    IF s = <<>> THEN 0
    ELSE 10 * StrToNat(SubSeq(s, 1, Len(s) - 1)) + DigitValue(s[Len(s)])

(***************************************************************************)
(* src/common/utils.py                                                     *)
(***************************************************************************)
\* the default of get_safe_filename's max_length parameter
DefaultMaxLength == 100

\* the "未命名" placeholder
Unnamed == <<"U672A", "U547D", "U540D">>

Ellipsis == <<".", ".", ".">>

\* re.sub(r'[\\/*?:"<>|\r\n\t]', "_", s)
SubForbidden(s) == [q \in 1..Len(s) |-> IF s[q] \in ForbiddenChars THEN "_" ELSE s[q]]

\* a plausible slip: periods and spaces are removed at the end only
SafeFilenameTrailingOnly(name, max_length) ==
    LET a == SubForbidden(Strip(name))
        b == RStrip(a, DotSpace)
        c == IF Len(b) > max_length
             THEN SubSeq(b, 1, max_length - 3) \o Ellipsis
             ELSE b
    IN  IF c = <<>> THEN Unnamed ELSE c

get_safe_filename(name, max_length) ==
    LET a == SubForbidden(Strip(name))
        b == StripChars(a, DotSpace)
        c == IF Len(b) > max_length
             THEN SubSeq(b, 1, max_length - 3) \o Ellipsis
             ELSE b
    IN  IF c = <<>> THEN Unnamed ELSE c

(***************************************************************************)
(* Python values that may be None, a str or a number (cell values, link    *)
(* texts, hyperlink targets).                                              *)
(***************************************************************************)
NoneVal == [kind |-> "none", s |-> <<>>, n |-> 0]

StrVal(s) == [kind |-> "str", s |-> s, n |-> 0]

NumVal(n) == [kind |-> "num", s |-> <<>>, n |-> n]

\* truth value of v in "if v"
Truthy(v) ==
    \/ v.kind = "str" /\ v.s # <<>>
    \/ v.kind = "num" /\ v.n # 0

\* str(v) of a value that is not None
PyStr(v) == IF v.kind = "num" THEN IntToStr(v.n) ELSE v.s

(***************************************************************************)
(* State.                                                                  *)
(***************************************************************************)
VARIABLES
    \* the shell (src/common/app_base.py)
    running,            \* _running
    stop_requested,     \* _stop_requested
    \* the form
    mode_all,           \* the "extract all" radio button is checked
    naming_rb,          \* the naming radio button that is checked
    start_spin,         \* value of the start-number spin boxes
    name_col_input,     \* text of the name-column edit, upper-cased
    prefix_input,       \* text of the prefix line edit
    prefix_sep_input,   \* text of the separator line edit
    regex_input,        \* text of the template line edit
    \* the worker thread: where it is, and the locals of the strategy it runs
    pc,
    naming_mode,
    start_num,
    counter,
    success,
    failed,
    skipped,
    total,
    media_files,
    i,                  \* index of the next archive entry (0-based)
    row_idx,
    max_row,
    image_loader,       \* the embedded-image loader is there (not None)
    clean_name,
    dl,                 \* the locals and the trace of _download_and_save
    \* the output directory: the names of the files in it
    files,
    \* what a run has done so far (history, read by no action)
    last_saved,         \* the last image saved: its base name, path and origin
    cancelled,          \* the loop was left through the stop flag
    summary,            \* what _print_summary reported
    edited,             \* a naming text was retyped while the run was active
    plain_rows,         \* processed rows with neither embedded image nor URL
    item,               \* what happened to the item processed last, if recorded
    \* the progress bar and status label: the last update_progress
    progress,
    \* the workbook of do_work: "none", "open" or "closed"
    wb,
    \* functions called on their own
    fn                  \* [op, in, done, out]

shellVars == <<running, stop_requested>>

radioVars == <<mode_all, naming_rb, start_spin, name_col_input>>

formVars == <<prefix_input, prefix_sep_input, regex_input>>

loopVars ==
    <<naming_mode, start_num, counter, success, failed, skipped, total,
      media_files, i, row_idx, max_row, image_loader>>

rowVars == <<clean_name, dl>>

histVars == <<last_saved, cancelled, summary, plain_rows, item, progress>>

vars ==
    <<running, stop_requested, mode_all, naming_rb, start_spin, name_col_input,
      prefix_input, prefix_sep_input, regex_input, pc, naming_mode, start_num,
      counter, success, failed, skipped, total, media_files, i, row_idx,
      max_row, image_loader, clean_name, dl, files, last_saved,
      cancelled, summary, edited, plain_rows, item, progress, wb, fn>>

(***************************************************************************)
(* src/0001-extract-images-from-excel/main.py: naming                      *)
(***************************************************************************)
NAMING_SEQ == "seq"

NAMING_PREFIX == "prefix"

NAMING_LINK == "link"

NAMING_REGEX == "regex"

NamingModes == {NAMING_SEQ, NAMING_PREFIX, NAMING_LINK, NAMING_REGEX}

\* "Image", the prefix used when the prefix edit is empty
ImageText == <<"I", "m", "a", "g", "e">>

\* "img_{n}", the template used when the template edit is empty
DefaultTemplate == <<"i", "m", "g", "_", "{", "n", "}">>

\* "{n}"
Placeholder == <<"{", "n", "}">>

\* a plausible slip: only the first {n} of the template is replaced
ReplaceFirst(s, old, new) ==
    IF \E q \in 1..Len(s) : StartsWith(SubSeq(s, q, Len(s)), old)
    THEN LET q == CHOOSE j \in 1..Len(s) :
                    /\ StartsWith(SubSeq(s, j, Len(s)), old)
                    /\ \A k \in 1..(j - 1) : ~StartsWith(SubSeq(s, k, Len(s)), old)
         IN  SubSeq(s, 1, q - 1) \o new \o SubSeq(s, q + Len(old), Len(s))
    ELSE s

MakeNameFirstOnly(mode, count, link_text) ==
    IF mode = NAMING_SEQ THEN IntToStr(count)
    ELSE IF mode = NAMING_PREFIX
    THEN LET prefix == IF prefix_input # <<>> THEN prefix_input ELSE ImageText
         IN  prefix \o prefix_sep_input \o IntToStr(count)
    ELSE IF mode = NAMING_LINK
    THEN IF Truthy(link_text) /\ Strip(PyStr(link_text)) # <<>>
         THEN get_safe_filename(PyStr(link_text), DefaultMaxLength)
         ELSE IntToStr(count)
    ELSE IF mode = NAMING_REGEX
    THEN LET tpl == IF regex_input # <<>> THEN regex_input ELSE DefaultTemplate
         IN  ReplaceFirst(tpl, Placeholder, IntToStr(count))
    ELSE IntToStr(count)

\* a plausible slip: the empty prefix and the empty template are used as
\* they are
MakeNameNoDefaults(mode, count, link_text) ==
    IF mode = NAMING_SEQ THEN IntToStr(count)
    ELSE IF mode = NAMING_PREFIX
    THEN prefix_input \o prefix_sep_input \o IntToStr(count)
    ELSE IF mode = NAMING_LINK
    THEN IF Truthy(link_text) /\ Strip(PyStr(link_text)) # <<>>
         THEN get_safe_filename(PyStr(link_text), DefaultMaxLength)
         ELSE IntToStr(count)
    ELSE IF mode = NAMING_REGEX
    THEN Replace(regex_input, Placeholder, IntToStr(count))
    ELSE IntToStr(count)

_make_name(mode, count, link_text) ==
    IF mode = NAMING_SEQ THEN IntToStr(count)
    ELSE IF mode = NAMING_PREFIX
    THEN LET prefix == IF prefix_input # <<>> THEN prefix_input ELSE ImageText
             sep == prefix_sep_input
         IN  prefix \o sep \o IntToStr(count)
    ELSE IF mode = NAMING_LINK
    THEN IF Truthy(link_text) /\ Strip(PyStr(link_text)) # <<>>
         THEN get_safe_filename(PyStr(link_text), DefaultMaxLength)
         ELSE IntToStr(count)   \* falls back to the sequence number
    ELSE IF mode = NAMING_REGEX
    THEN LET tpl == IF regex_input # <<>> THEN regex_input ELSE DefaultTemplate
         IN  Replace(tpl, Placeholder, IntToStr(count))
    ELSE IntToStr(count)

(***************************************************************************)
(* main.py: the unique path allocator.  A directory is the set of the file *)
(* names in it; directory / f"{name}.{fmt}" is the file name.              *)
(***************************************************************************)
\* f"{name}.{fmt}"
PlainPath(name, fmt) == name \o <<".">> \o fmt

\* f"{name}_{counter}.{fmt}"
SuffixedPath(name, suffix, fmt) ==
    name \o <<"_">> \o IntToStr(suffix) \o <<".">> \o fmt

\* the while loop of _get_unique_path, entered with `filepath` and `counter`
RECURSIVE UniquePathLoop(_, _, _, _, _)
UniquePathLoop(directory, name, fmt, filepath, suffix) ==
    IF filepath \in directory
    THEN UniquePathLoop(directory, name, fmt,
                        SuffixedPath(name, suffix, fmt), suffix + 1)
    ELSE filepath

\* a plausible slip: an `if` for the `while`, the suffixed name is not probed
UniquePathProbesOnce(directory, name, fmt) ==
    IF PlainPath(name, fmt) \in directory
    THEN SuffixedPath(name, 1, fmt)
    ELSE PlainPath(name, fmt)

\* a plausible slip: the plain name is taken without looking
UniquePathNoFirstCheck(directory, name, fmt) == PlainPath(name, fmt)

_get_unique_path(directory, name, fmt) ==
    UniquePathLoop(directory, name, fmt, PlainPath(name, fmt), 1)

(***************************************************************************)
(* main.py: the order of the archive's media members.                      *)
(***************************************************************************)
\* "xl/media/"
MediaPrefix == <<"x", "l", "/", "m", "e", "d", "i", "a", "/">>

\* the members kept by the loop over zf.namelist()
IsMediaFile(name) == StartsWith(name, MediaPrefix) /\ ~EndsWith(name, <<"/">>)

\* end of the last maximal run of digits of s (0: no digit)
LastDigitEnd(s) ==
    IF \E k \in 1..Len(s) : s[k] \in DigitChars
    THEN CHOOSE k \in 1..Len(s) :
            /\ s[k] \in DigitChars
            /\ \A j \in (k + 1)..Len(s) : s[j] \notin DigitChars
    ELSE 0

\* start of the run of digits that ends at position e
RECURSIVE DigitRunStart(_, _)
DigitRunStart(s, e) ==
    IF e > 1 /\ s[e - 1] \in DigitChars THEN DigitRunStart(s, e - 1) ELSE e

\* start of the first run of digits and its end
FirstDigitStart(s) ==
    CHOOSE k \in 1..Len(s) :
        s[k] \in DigitChars /\ \A j \in 1..(k - 1) : s[j] \notin DigitChars

RECURSIVE DigitRunEnd(_, _)
DigitRunEnd(s, b) ==
    IF b < Len(s) /\ s[b + 1] \in DigitChars THEN DigitRunEnd(s, b + 1) ELSE b

\* a plausible slip: nums[0] for nums[-1]
SortKeyFirstRun(fname) ==
    IF \E k \in 1..Len(fname) : fname[k] \in DigitChars
    THEN LET b == FirstDigitStart(fname)
         IN  StrToNat(SubSeq(fname, b, DigitRunEnd(fname, b)))
    ELSE 0

\* nums = re.findall(r'(\d+)', fname); int(nums[-1]) if nums else 0
_sort_key(fname) ==
    LET e == LastDigitEnd(fname)
    IN  IF e = 0 THEN 0 ELSE StrToNat(SubSeq(fname, DigitRunStart(fname, e), e))

\* list.sort(key=_sort_key): ascending and stable.  x goes behind every
\* element whose key is not larger
RECURSIVE InsertByKey(_, _)
InsertByKey(sorted, x) ==
    IF sorted = <<>> THEN <<x>>
    ELSE IF _sort_key(Head(sorted)) <= _sort_key(x)
         THEN <<Head(sorted)>> \o InsertByKey(Tail(sorted), x)
         ELSE <<x>> \o sorted

RECURSIVE SortByKey(_)
SortByKey(list) ==
    IF list = <<>> THEN <<>>
    ELSE InsertByKey(SortByKey(SubSeq(list, 1, Len(list) - 1)), list[Len(list)])

\* the media members of the archive, in the order they are processed
SortedMediaFiles(namelist) == SortByKey(SelectSeq(namelist, IsMediaFile))

(***************************************************************************)
(* main.py: decoding an entry.                                             *)
(***************************************************************************)
Upper == <<"A", "B", "C", "D", "E", "F", "G", "H", "I", "J", "K", "L", "M",
           "N", "O", "P", "Q", "R", "S", "T", "U", "V", "W", "X", "Y", "Z">>

Lower == <<"a", "b", "c", "d", "e", "f", "g", "h", "i", "j", "k", "l", "m",
           "n", "o", "p", "q", "r", "s", "t", "u", "v", "w", "x", "y", "z">>

\* str.lower()
LowerChar(c) ==
    IF \E k \in 1..26 : Upper[k] = c
    THEN Lower[CHOOSE k \in 1..26 : Upper[k] = c]
    ELSE c

ToLower(s) == [k \in 1..Len(s) |-> LowerChar(s[k])]

\* the last component of a path
RECURSIVE BaseName(_)
BaseName(path) ==
    IF \E k \in 1..Len(path) : path[k] = "/"
    THEN BaseName(SubSeq(path, (CHOOSE k \in 1..Len(path) : path[k] = "/") + 1,
                         Len(path)))
    ELSE path

\* Path(media_name).suffix: from the last dot of the last component, unless
\* that dot starts or ends the component
PathSuffix(path) ==
    LET nm == BaseName(path)
        dots == {k \in 1..Len(nm) : nm[k] = "."}
    IN  IF dots = {} THEN <<>>
        ELSE LET d == CHOOSE k \in dots : \A j \in dots : j <= k
             IN  IF d = 1 \/ d = Len(nm) THEN <<>> ELSE SubSeq(nm, d, Len(nm))

\* the first four bytes of an entry, by what they are
_EMF_SIGNATURE == "01000000"

_WMF_SIGNATURES == {"D7CDC69A", "01000900"}

\* what one run of a conversion utility does: it raises (not installed, exit
\* status not 0, timeout) or returns, and has or has not written the output
UtilityOutcomes == {"raises", "raises_out", "ok", "ok_no_out"}

\* the utilities in the order _convert_vector_to_image tries them; sips
\* only when sys.platform is 'darwin'
UtilityOrder(platform) ==
    IF platform = "darwin" THEN <<"sips", "magick", "convert">>
    ELSE <<"magick", "convert">>

\* the finally clause: os.unlink on both paths, a failure of it ignored; the
\* scratch files still in the output directory afterwards.  Removing the
\* input fails where it is still open (tmp_in.write raised before
\* tmp_in.close) on a platform that does not remove open files
Cleanup(in_open, out_exists, platform) ==
    {f \in {"tmp_in"} : in_open /\ platform = "win32"}

\* _convert_vector_to_image under the outcomes c of its steps: the image or
\* none, the utilities it ran, and the scratch files it left behind
_convert_vector_to_image(c) ==
    IF ~c.create_ok
    THEN [img |-> "none", invoked |-> <<>>, left |-> {}]
    ELSE IF ~c.write_ok
    THEN [img |-> "none", invoked |-> <<>>,
          left |-> Cleanup(TRUE, FALSE, c.platform)]
    ELSE LET order == UtilityOrder(c.platform)
             wins == {k \in 1..Len(order) : c[order[k]] \in {"ok", "ok_no_out"}}
             invoked == IF wins = {} THEN order
                        ELSE SubSeq(order, 1,
                                    CHOOSE k \in wins : \A j \in wins : k <= j)
             out_exists == \E k \in 1..Len(invoked) :
                                c[invoked[k]] \in {"ok", "raises_out"}
         IN  [img |-> IF wins # {} /\ out_exists /\ c.decode_ok
                      THEN "image" ELSE "none",
              invoked |-> invoked,
              left |-> Cleanup(FALSE, out_exists, c.platform)]

\* a plausible slip: the entry is classified by its extension only
IsEmfWmfByExtension(data, media_name) ==
    ToLower(PathSuffix(media_name)) \in
        {<<".", "e", "m", "f">>, <<".", "w", "m", "f">>}

\* is_emf_wmf of _open_image_data: by the extension, else by the header
is_emf_wmf(data, media_name) ==
    LET ext == ToLower(PathSuffix(media_name))
        by_ext == ext \in {<<".", "e", "m", "f">>, <<".", "w", "m", "f">>}
        by_header ==
            /\ ~by_ext
            /\ data.len >= 4
            /\ (data.header = _EMF_SIGNATURE \/ data.header \in _WMF_SIGNATURES)
    IN  by_ext \/ by_header

\* _open_image_data: "image" or "none".  `data` is [decodable, header, len];
\* `converted` is what _convert_vector_to_image gives when it is called
_open_image_data(data, media_name, converted) ==
    IF data.decodable THEN "image"
    ELSE IF ~is_emf_wmf(data, media_name) THEN "none"
    ELSE IF converted THEN "image" ELSE "none"

(***************************************************************************)
(* main.py: the cells of a row.  A row is [name_value, value, hyperlink,   *)
(* target, display, embedded]: the value of its name-column cell, the      *)
(* value of its image cell, whether the image cell has a hyperlink, the    *)
(* hyperlink's target and display text, and what the embedded-image loader *)
(* does for the image cell ("none", "image" or "raises").                  *)
(***************************************************************************)
HTTP == <<"h", "t", "t", "p", ":", "/", "/">>

HTTPS == <<"h", "t", "t", "p", "s", ":", "/", "/">>

\* str.startswith(('http://', 'https://'))
IsUrl(text) == StartsWith(text, HTTP) \/ StartsWith(text, HTTPS)

\* a plausible slip: the cell's text is returned without looking at it
GetUrlNoValueCheck(c) ==
    IF c.hyperlink /\ Truthy(c.target) /\ IsUrl(Strip(c.target.s))
    THEN StrVal(Strip(c.target.s))
    ELSE IF Truthy(c.value) /\ c.value.kind = "str"
    THEN StrVal(Strip(c.value.s))
    ELSE NoneVal

\* a plausible slip: only the hyperlink is looked at
GetUrlTargetOnly(c) ==
    IF c.hyperlink /\ Truthy(c.target) /\ IsUrl(Strip(c.target.s))
    THEN StrVal(Strip(c.target.s))
    ELSE NoneVal

_get_url_from_cell(c) ==
    IF c.hyperlink /\ Truthy(c.target) /\ IsUrl(Strip(c.target.s))
    THEN StrVal(Strip(c.target.s))
    ELSE IF Truthy(c.value) /\ c.value.kind = "str" /\ IsUrl(Strip(c.value.s))
    THEN StrVal(Strip(c.value.s))
    ELSE NoneVal

\* which branch of _resolve_column_name gives the name
NameOrigin(row, name_col, naming) ==
    IF /\ name_col # <<>>
       /\ row.name_value.kind # "none"
       /\ Strip(PyStr(row.name_value)) # <<>>
       /\ ~IsUrl(Strip(PyStr(row.name_value)))
    THEN "name_col"
    ELSE IF /\ naming = NAMING_LINK
            /\ Truthy(row.value)
            /\ Strip(PyStr(row.value)) # <<>>
            /\ ~IsUrl(Strip(PyStr(row.value)))
    THEN "cell_text"
    ELSE IF /\ naming = NAMING_LINK
            /\ row.hyperlink
            /\ Truthy(row.display)
            /\ Strip(PyStr(row.display)) # <<>>
            /\ ~IsUrl(Strip(PyStr(row.display)))
    THEN "display"
    ELSE "resolver"

\* a plausible slip: the name-column value is not checked for being a URL
ResolveNameNoUrlCheck(row, name_col, naming, count) ==
    IF /\ name_col # <<>>
       /\ row.name_value.kind # "none"
       /\ Strip(PyStr(row.name_value)) # <<>>
    THEN get_safe_filename(Strip(PyStr(row.name_value)), DefaultMaxLength)
    ELSE IF NameOrigin(row, <<>>, naming) = "cell_text"
    THEN get_safe_filename(Strip(PyStr(row.value)), DefaultMaxLength)
    ELSE IF NameOrigin(row, <<>>, naming) = "display"
    THEN get_safe_filename(Strip(PyStr(row.display)), DefaultMaxLength)
    ELSE _make_name(naming, count, NoneVal)

_resolve_column_name(row, name_col, naming, count) ==
    LET origin == NameOrigin(row, name_col, naming)
    IN  IF origin = "name_col"
        THEN get_safe_filename(Strip(PyStr(row.name_value)), DefaultMaxLength)
        ELSE IF origin = "cell_text"
        THEN get_safe_filename(Strip(PyStr(row.value)), DefaultMaxLength)
        ELSE IF origin = "display"
        THEN get_safe_filename(Strip(PyStr(row.display)), DefaultMaxLength)
        ELSE _make_name(naming, count, NoneVal)

(***************************************************************************)
(* Bounds and inputs of a run.                                             *)
(***************************************************************************)
\* most members an archive has
MaxMembers == 3
\* most data rows a sheet has
MaxRows == 2

\* the start row typed into the form (its default)
start_row == 2

\* max_retries of _download_and_save
max_retries == 3

PNG == <<"p", "n", "g">>

JPG == <<"j", "p", "g">>

\* the output format selected in the form
image_format == PNG

Member(file) == MediaPrefix \o file

Image1Emf == Member(<<"i", "m", "a", "g", "e", "1", ".", "e", "m", "f">>)

Image2Png == Member(<<"i", "m", "a", "g", "e", "2", ".", "p", "n", "g">>)

Image3Jpg == Member(<<"i", "m", "a", "g", "e", "3", ".", "j", "p", "g">>)

Image1Png == Member(<<"i", "m", "a", "g", "e", "1", ".", "p", "n", "g">>)

Image3Png == Member(<<"i", "m", "a", "g", "e", "3", ".", "p", "n", "g">>)

Image10Png == Member(<<"i", "m", "a", "g", "e", "1", "0", ".", "p", "n", "g">>)

\* same key as image1.png
Image01Png == Member(<<"i", "m", "a", "g", "e", "0", "1", ".", "p", "n", "g">>)

\* no digits: key 0
LogoPng == Member(<<"l", "o", "g", "o", ".", "p", "n", "g">>)

\* the last digits are those of the extension
Image7Jp2 == Member(<<"i", "m", "a", "g", "e", "7", ".", "j", "p", "2">>)

\* the directory itself
MediaDir == MediaPrefix

\* not a media member
Drawing1Xml == <<"x", "l", "/", "d", "r", "a", "w", "i", "n", "g", "1", ".", "x", "m", "l">>

\* the archives a run may find
Archives ==
    {a \in {<<>>,
            <<Drawing1Xml, MediaDir>>,
            <<LogoPng>>,
            <<Image3Png, Image1Png>>,
            <<Image1Emf, Image2Png, Image3Jpg>>,
            <<Image3Png, Image10Png, Image1Png>>,
            <<Image3Png, Image10Png, Image1Png, LogoPng>>,
            <<MediaDir, Image10Png, LogoPng, Image1Emf, Drawing1Xml>>} :
        Len(SelectSeq(a, IsMediaFile)) <= MaxMembers}

\* what zf.read gives for an entry
EntryData ==
    {[decodable |-> TRUE, header |-> "89504E47", len |-> 8],
     [decodable |-> FALSE, header |-> "89504E47", len |-> 8],
     [decodable |-> FALSE, header |-> _EMF_SIGNATURE, len |-> 8],
     [decodable |-> FALSE, header |-> "D7CDC69A", len |-> 4],
     [decodable |-> FALSE, header |-> "01", len |-> 1]}

\* what the output directory may hold when a run begins
DirContents == {{}, {PlainPath(<<"1">>, PNG)}}

StartNums == {1, 9}

NameColumns == {<<>>, <<"B">>}

\* ws.max_row is None
NoRow == -1

MaxRowValues == {NoRow} \cup 1..(start_row + MaxRows - 1)

UrlA == HTTP \o <<"a">>

UrlB == HTTPS \o <<"b">>

UrlT == HTTP \o <<"t">>

ExampleCom == <<"e", "x", "a", "m", "p", "l", "e", ".", "c", "o", "m", "/", "a", ".", "j", "p", "g">>

FtpX == <<"f", "t", "p", ":", "/", "/", "x", "/", "a", ".", "j", "p", "g">>

NameValues == {NoneVal, StrVal(<<" ", "n", "/">>), StrVal(UrlA)}

CellValues ==
    {NoneVal, StrVal(<<" ">> \o UrlB \o <<" ">>), StrVal(FtpX),
     StrVal(ExampleCom), StrVal(<<"R", "e", "d">>)}

\* hyperlink, target, display
CellLinks ==
    {<<FALSE, NoneVal, NoneVal>>,
     <<TRUE, StrVal(<<" ">> \o UrlT), StrVal(<<"d">>)>>,
     <<TRUE, StrVal(FtpX), NoneVal>>}

Rows ==
    {[name_value |-> nv, value |-> v, hyperlink |-> l[1], target |-> l[2],
      display |-> l[3], embedded |-> e] :
        nv \in NameValues, v \in CellValues, l \in CellLinks,
        e \in {"none", "image", "raises"}}

(***************************************************************************)
(* Values of the variables where the program has none.                     *)
(***************************************************************************)
\* attempt and filepath are locals of _download_and_save; the rest is what
\* the call has done: the requests.get calls, the sleeps, the "final failure"
\* log line, a return through the stop flag, and the result.  origin is
\* where the row's name came from
DlIdle ==
    [filepath |-> <<>>, origin |-> "none", attempt |-> 0, fetches |-> 0,
     sleeps |-> <<>>, final_logged |-> FALSE, stopped |-> FALSE,
     result |-> "none"]

NoSave == [name |-> <<>>, path |-> <<>>, origin |-> "none"]

NoSummary ==
    [done |-> FALSE, total |-> 0, success |-> 0, failed |-> 0, skipped |-> 0]

\* items are not recorded in this run of the model
NotRecorded ==
    [lookup |-> "off", embedded_saved |-> FALSE, url |-> FALSE, fetched |-> "off",
     error |-> "off"]

\* no item has been processed yet
ItemNone ==
    [lookup |-> "untried", embedded_saved |-> FALSE, url |-> FALSE,
     fetched |-> "none",
     error |-> "none"]

\* update_progress(num / den * 100, text): the value as a fraction of 100,
\* the text by its kind
Progress(num, den, status) == [num |-> num, den |-> den, status |-> status]

\* the progress bar and the status label after construction
ProgressReady == Progress(0, 1, "ready")

FnNone == [op |-> "none", in |-> <<>>, done |-> FALSE, out |-> <<>>]

\* the locals of a strategy before it has set them
LocalsUnset ==
    /\ naming_mode = NAMING_SEQ
    /\ start_num = 0
    /\ counter = 0
    /\ success = 0
    /\ failed = 0
    /\ skipped = 0
    /\ total = 0
    /\ media_files = <<>>
    /\ i = 0
    /\ row_idx = 0
    /\ max_row = 0
    /\ image_loader = FALSE
    /\ clean_name = <<>>
    /\ dl = DlIdle

HistoryEmpty ==
    /\ last_saved = NoSave
    /\ cancelled = FALSE
    /\ summary = NoSummary
    /\ plain_rows = 0

(***************************************************************************)
(* The form: the user may retype the template at any time.                 *)
(***************************************************************************)
\* the templates the user types: the default, and one without {n}
TemplateTexts == {DefaultTemplate, <<"t">>}

EditTemplate ==
    /\ \E t \in TemplateTexts \ {regex_input} : regex_input' = t
    /\ edited' = (edited \/ running)
    /\ UNCHANGED <<shellVars, radioVars, prefix_input, prefix_sep_input, pc,
                   loopVars, rowVars, files, histVars, wb, fn>>

\* the texts the line edits are constructed with
FormInit ==
    /\ prefix_input = ImageText
    /\ prefix_sep_input = <<"_">>
    /\ regex_input = DefaultTemplate

(***************************************************************************)
(* src/common/app_base.py: the shell.                                      *)
(***************************************************************************)
\* a plausible slip: the flag is never looked at
ShouldStopNever == FALSE

should_stop == stop_requested

\* a plausible slip: the click is not checked against _running
OnStartWhileRunning ==
    /\ running' = TRUE
    /\ stop_requested' = FALSE
    /\ progress' = Progress(0, 1, "processing")
    /\ pc' = "do_work"
    /\ edited' = FALSE
    /\ UNCHANGED <<radioVars, formVars, loopVars, rowVars, files, last_saved,
                   cancelled, summary, plain_rows, item, wb, fn>>

\* validate() is taken to pass
_on_start ==
    /\ ~running
    /\ running' = TRUE
    /\ stop_requested' = FALSE
    /\ progress' = Progress(0, 1, "processing")
    /\ pc' = "do_work"
    /\ edited' = FALSE
    /\ UNCHANGED <<radioVars, formVars, loopVars, rowVars, files, last_saved,
                   cancelled, summary, plain_rows, item, wb, fn>>

\* a plausible slip: the click raises the flag whether or not a run is active
OnStopWhenIdle ==
    /\ stop_requested' = TRUE
    /\ UNCHANGED <<running, radioVars, formVars, pc, loopVars, rowVars, files,
                   histVars, edited, wb, fn>>

_on_stop ==
    /\ running
    /\ stop_requested' = TRUE
    /\ UNCHANGED <<running, radioVars, formVars, pc, loopVars, rowVars, files,
                   histVars, edited, wb, fn>>

\* the worker has finished; its locals and the run's history are dropped
_on_done ==
    /\ pc = "finished"
    /\ running' = FALSE
    /\ pc' = "idle"
    /\ naming_mode' = NAMING_SEQ
    /\ start_num' = 0
    /\ counter' = 0
    /\ success' = 0
    /\ failed' = 0
    /\ skipped' = 0
    /\ total' = 0
    /\ media_files' = <<>>
    /\ i' = 0
    /\ row_idx' = 0
    /\ max_row' = 0
    /\ image_loader' = FALSE
    /\ clean_name' = <<>>
    /\ dl' = DlIdle
    /\ last_saved' = NoSave
    /\ cancelled' = FALSE
    /\ summary' = NoSummary
    /\ plain_rows' = 0
    /\ item' = IF item = NotRecorded THEN item ELSE ItemNone
    /\ files' = {}
    /\ wb' = "none"
    /\ edited' = FALSE
    /\ UNCHANGED <<stop_requested, radioVars, formVars, progress, fn>>

(***************************************************************************)
(* main.py: do_work and the two strategies.                                *)
(***************************************************************************)
_get_naming_mode == naming_rb

_get_start_number(mode) ==
    IF mode \in {NAMING_SEQ, NAMING_PREFIX, NAMING_REGEX} THEN start_spin ELSE 1

\* a plausible slip: a cancelled run reports the items it got to as its total
PrintSummaryOfProcessed(was_cancelled) ==
    /\ summary' = [done |-> TRUE,
                   total |-> IF ~was_cancelled THEN total
                             ELSE IF mode_all THEN i ELSE row_idx - start_row,
                   success |-> success, failed |-> failed, skipped |-> skipped]
    /\ cancelled' = was_cancelled
    /\ progress' = Progress(1, 1, "summary")
    /\ wb' = "closed"
    /\ pc' = "finished"

\* _print_summary, and the return to the shell through the finally clause
\* of do_work, which closes the workbook
PrintSummary(was_cancelled) ==
    /\ summary' = [done |-> TRUE, total |-> total, success |-> success,
                   failed |-> failed, skipped |-> skipped]
    /\ cancelled' = was_cancelled
    /\ progress' = Progress(1, 1, "summary")
    /\ wb' = "closed"
    /\ pc' = "finished"

\* the facts of an item are kept when items are recorded
Recorded(facts) == item' = IF item = NotRecorded THEN item ELSE facts

\* what is recorded of a run whose workbook or sheet could not be loaded
LoadFailed ==
    [lookup |-> "untried", embedded_saved |-> FALSE, url |-> FALSE,
     fetched |-> "none",
     error |-> "load"]

\* a plausible slip: the failed load falls through to the closing summary
DoWorkLoadFailsSummarises ==
    /\ pc = "do_work"
    /\ files' \in DirContents
    /\ Recorded(LoadFailed)
    /\ PrintSummary(FALSE)
    /\ UNCHANGED <<shellVars, radioVars, formVars, loopVars, rowVars,
                   last_saved, plain_rows, edited, fn>>

\* load_workbook or wb[sheet_name] raises: the error is logged and do_work
\* returns
DoWorkLoadFails ==
    /\ pc = "do_work"
    /\ files' \in DirContents
    /\ Recorded(LoadFailed)
    /\ \E sheet_missing \in BOOLEAN :
        wb' = IF sheet_missing THEN "open" ELSE "none"
    /\ pc' = "finished"
    /\ UNCHANGED <<shellVars, radioVars, formVars, loopVars, rowVars,
                   last_saved, cancelled, summary, plain_rows, progress,
                   edited, fn>>

\* what is recorded of a run whose do_work let an exception escape
Escaped ==
    [lookup |-> "untried", embedded_saved |-> FALSE, url |-> FALSE,
     fetched |-> "none",
     error |-> "escaped"]

\* an exception leaves do_work: output_dir.mkdir raises before the workbook
\* is loaded, or, in ALL mode, the archive cannot be opened a second time
\* for the loop and the finally clause closes the workbook on the way out;
\* _WorkerThread.run catches it and emits error_signal
DoWorkRaises ==
    /\ pc = "do_work"
    /\ files' \in DirContents
    /\ \E in_strategy \in {FALSE} \cup {b \in {TRUE} : mode_all} :
        wb' = IF in_strategy THEN "closed" ELSE "none"
    /\ Recorded(Escaped)
    /\ pc' = "finished"
    /\ UNCHANGED <<shellVars, radioVars, formVars, loopVars, rowVars,
                   last_saved, cancelled, summary, plain_rows, progress,
                   edited, fn>>

\* what is recorded of a run whose file could not be read as an archive
ArchiveFailed ==
    [lookup |-> "untried", embedded_saved |-> FALSE, url |-> FALSE,
     fetched |-> "none",
     error |-> "archive"]

ExtractAllBegin ==
    /\ pc = "do_work"
    /\ mode_all
    /\ files' \in DirContents
    /\ \E readable \in BOOLEAN, namelist \in Archives :
        LET found == SortedMediaFiles(namelist)
        IN  IF ~readable
            THEN /\ pc' = "finished"
                 /\ wb' = "closed"
                 /\ Recorded(ArchiveFailed)
                 /\ UNCHANGED <<loopVars, progress>>
            ELSE IF Len(found) = 0
            THEN /\ pc' = "finished"
                 /\ wb' = "closed"
                 /\ progress' = Progress(1, 1, "no_images")
                 /\ UNCHANGED <<loopVars, item>>
            ELSE /\ pc' = "all_loop"
                 /\ wb' = "open"
                 /\ UNCHANGED progress
                 /\ media_files' = found
                 /\ total' = Len(found)
                 /\ naming_mode' = _get_naming_mode
                 /\ start_num' = _get_start_number(_get_naming_mode)
                 /\ counter' = _get_start_number(_get_naming_mode)
                 /\ success' = 0
                 /\ failed' = 0
                 /\ i' = 0
                 /\ UNCHANGED <<skipped, row_idx, max_row, image_loader, item>>
    /\ UNCHANGED <<shellVars, radioVars, formVars, rowVars, last_saved, cancelled,
                   summary, plain_rows, edited, fn>>

\* a plausible slip: the index is used as it comes from enumerate()
UpdateExtractProgressFromZero(idx, tot) == Progress(idx, tot, "item")

\* update_progress((i + 1) / total * 100, ...)
_update_extract_progress(idx, tot) == Progress(idx + 1, tot, "item")

\* a plausible slip: the counter moves on for a failed entry too
AllEntryCountsEveryEntry(opened, save_ok) ==
    IF opened = "image" /\ save_ok
    THEN [success |-> 1, failed |-> 0, counter |-> 1]
    ELSE [success |-> 0, failed |-> 1, counter |-> 1]

\* a plausible slip: an entry that cannot be opened is not counted
AllEntryDropsUnopened(opened, save_ok) ==
    IF opened = "image" /\ save_ok
    THEN [success |-> 1, failed |-> 0, counter |-> 1]
    ELSE IF opened = "none"
    THEN [success |-> 0, failed |-> 0, counter |-> 0]
    ELSE [success |-> 0, failed |-> 1, counter |-> 0]

\* what one entry adds to success, failed and counter: `opened` is "image",
\* "none" (_open_image_data gave None) or "raised" (zf.read raised)
AllEntryCounts(opened, save_ok) ==
    IF opened = "image" /\ save_ok
    THEN [success |-> 1, failed |-> 0, counter |-> 1]
    ELSE [success |-> 0, failed |-> 1, counter |-> 0]

AllEntry ==
    /\ pc = "all_loop"
    /\ i < total
    /\ IF should_stop
       THEN /\ PrintSummary(TRUE)
            /\ UNCHANGED <<loopVars, files, last_saved, item>>
       ELSE /\ \E read_ok \in BOOLEAN, data \in EntryData, converted \in BOOLEAN,
                  save_ok \in BOOLEAN :
                LET media_name == media_files[i + 1]
                    opened == IF read_ok
                              THEN _open_image_data(data, media_name, converted)
                              ELSE "raised"
                    filename == _make_name(naming_mode, counter, NoneVal)
                    filepath == _get_unique_path(files, filename, image_format)
                    add == AllEntryCounts(opened, save_ok)
                IN  /\ success' = success + add.success
                    /\ failed' = failed + add.failed
                    /\ counter' = counter + add.counter
                    /\ IF opened = "image" /\ save_ok
                       THEN /\ files' = files \cup {filepath}
                            /\ last_saved' = [name |-> filename, path |-> filepath,
                                              origin |-> "resolver"]
                       ELSE UNCHANGED <<files, last_saved>>
                    /\ Recorded([lookup |-> "untried",
                                 embedded_saved |-> FALSE,
                                 url |-> FALSE, fetched |-> "none",
                                 error |-> IF ~read_ok THEN "read"
                                           ELSE IF opened = "none" THEN "decode"
                                           ELSE IF ~save_ok THEN "save"
                                           ELSE "none"])
            /\ progress' = _update_extract_progress(i, total)
            /\ i' = i + 1
            /\ UNCHANGED <<naming_mode, start_num, skipped, total, media_files,
                           row_idx, max_row, image_loader, pc, cancelled, summary,
                           wb>>
    /\ UNCHANGED <<shellVars, radioVars, formVars, rowVars, plain_rows, edited, fn>>

AllLoopEnd ==
    /\ pc = "all_loop"
    /\ i = total
    /\ PrintSummary(FALSE)
    /\ UNCHANGED <<shellVars, radioVars, formVars, loopVars, rowVars, files,
                   last_saved, plain_rows, item, edited, fn>>

\* a plausible slip: the start row itself is not taken as a data row
NoDataRowsInclusive(last_row) == last_row = NoRow \/ last_row <= start_row

\* max_row is None or max_row < start_row
NoDataRows(last_row) == last_row = NoRow \/ last_row < start_row

ExtractByColumnBegin ==
    /\ pc = "do_work"
    /\ ~mode_all
    /\ files' \in DirContents
    /\ \E loader \in BOOLEAN, last_row \in MaxRowValues :
        IF NoDataRows(last_row)
        THEN /\ pc' = "finished"
             /\ wb' = "closed"
             /\ progress' = Progress(1, 1, "no_data")
             /\ image_loader' = loader
             /\ max_row' = last_row
             /\ naming_mode' = _get_naming_mode
             /\ start_num' = _get_start_number(_get_naming_mode)
             /\ UNCHANGED <<counter, success, failed, skipped, total,
                            media_files, i, row_idx>>
        ELSE /\ pc' = "col_loop"
             /\ wb' = "open"
             /\ UNCHANGED progress
             /\ image_loader' = loader
             /\ max_row' = last_row
             /\ total' = last_row - start_row + 1
             /\ naming_mode' = _get_naming_mode
             /\ start_num' = _get_start_number(_get_naming_mode)
             /\ counter' = _get_start_number(_get_naming_mode)
             /\ success' = 0
             /\ failed' = 0
             /\ skipped' = 0
             /\ row_idx' = start_row
             /\ UNCHANGED <<media_files, i>>
    /\ UNCHANGED <<shellVars, radioVars, formVars, rowVars, last_saved, cancelled,
                   summary, plain_rows, item, edited, fn>>

\* a plausible slip: a failed download is not counted as a failure
ColRowCountsNoFailed(embedded_saved, url_found, downloaded) ==
    LET saved == embedded_saved \/ (url_found /\ downloaded)
    IN  [success |-> IF saved THEN 1 ELSE 0,
         counter |-> IF saved THEN 1 ELSE 0,
         failed |-> 0,
         skipped |-> IF ~saved THEN 1 ELSE 0]

\* what a row adds to success, failed, skipped and counter: the embedded
\* image was saved, or a URL was found and the download said `downloaded`
ColRowCounts(embedded_saved, url_found, downloaded) ==
    LET saved == embedded_saved \/ (url_found /\ downloaded)
    IN  [success |-> IF saved THEN 1 ELSE 0,
         counter |-> IF saved THEN 1 ELSE 0,
         failed |-> IF ~embedded_saved /\ url_found /\ ~downloaded THEN 1 ELSE 0,
         skipped |-> IF ~saved THEN 1 ELSE 0]

\* the counts of a row are added and the loop moves to the next row
RowDone(add) ==
    /\ success' = success + add.success
    /\ failed' = failed + add.failed
    /\ skipped' = skipped + add.skipped
    /\ counter' = counter + add.counter
    /\ row_idx' = row_idx + 1
    /\ progress' = Progress(row_idx - start_row + 1, total, "item")
    /\ pc' = "col_loop"
    /\ UNCHANGED <<naming_mode, start_num, total, media_files, i, max_row,
                   image_loader>>

\* the cell holds a text the downloader accepts, in its hyperlink or its value
HoldsUrl(row) ==
    \/ row.hyperlink /\ row.target.kind = "str" /\ IsUrl(Strip(row.target.s))
    \/ row.value.kind = "str" /\ IsUrl(Strip(row.value.s))

\* what is recorded of a row: what the embedded lookup did, whether its image
\* was saved, whether the cell holds a URL, and the error that was raised
RowFacts(row, raises, save_ok) ==
    IF raises
    THEN [lookup |-> "untried", embedded_saved |-> FALSE, url |-> FALSE,
          fetched |-> "none", error |-> "row"]
    ELSE [lookup |-> IF image_loader THEN row.embedded ELSE "no_loader",
          embedded_saved |-> image_loader /\ row.embedded = "image" /\ save_ok,
          url |-> HoldsUrl(row),
          fetched |-> "none",
          error |-> IF image_loader /\ row.embedded = "raises" THEN "lookup"
                    ELSE IF image_loader /\ row.embedded = "image" /\ ~save_ok
                    THEN "save"
                    ELSE "none"]

ColRow ==
    /\ pc = "col_loop"
    /\ row_idx <= max_row
    /\ IF should_stop
       THEN /\ PrintSummary(TRUE)
            /\ UNCHANGED <<loopVars, rowVars, files, last_saved, plain_rows, item>>
       ELSE /\ \E row \in Rows, raises \in BOOLEAN, save_ok \in BOOLEAN :
                LET name == _resolve_column_name(row, name_col_input, naming_mode,
                                                 counter)
                    origin == NameOrigin(row, name_col_input, naming_mode)
                    filepath == _get_unique_path(files, name, image_format)
                    embedded_saved == image_loader /\ row.embedded = "image" /\ save_ok
                    url == _get_url_from_cell(row)
                IN  /\ Recorded(RowFacts(row, raises, save_ok))
                    /\ IF raises
                       THEN \* an error outside the inner try: the row fails
                            /\ RowDone([success |-> 0, failed |-> 1, skipped |-> 0,
                                        counter |-> 0])
                            /\ UNCHANGED <<rowVars, files, last_saved, plain_rows>>
                       ELSE IF embedded_saved
                       THEN /\ RowDone(ColRowCounts(TRUE, FALSE, FALSE))
                            /\ files' = files \cup {filepath}
                            /\ last_saved' = [name |-> name, path |-> filepath,
                                              origin |-> origin]
                            /\ UNCHANGED <<rowVars, plain_rows>>
                       ELSE IF url # NoneVal
                       THEN /\ pc' = "download"
                            /\ clean_name' = name
                            /\ dl' = [DlIdle EXCEPT !.filepath = filepath,
                                                    !.origin = origin,
                                                    !.result = "pending"]
                            /\ UNCHANGED <<loopVars, files, last_saved, plain_rows,
                                           progress>>
                       ELSE /\ RowDone(ColRowCounts(FALSE, FALSE, FALSE))
                            /\ plain_rows' = plain_rows + 1
                            /\ UNCHANGED <<rowVars, files, last_saved>>
            /\ UNCHANGED <<cancelled, summary, wb>>
    /\ UNCHANGED <<shellVars, radioVars, formVars, edited, fn>>

\* a plausible slip: the last attempt waits and retries like the others
RetryAgainAlways(attempt) == attempt < max_retries

\* attempt < max_retries - 1: the failed attempt is followed by another
RetryAgain(attempt) == attempt < max_retries - 1

\* time.sleep(1 * (attempt + 1)), in seconds
Backoff(attempt) == 1 * (attempt + 1)

\* one pass of the for loop of _download_and_save.  An attempt fails in
\* requests.get or raise_for_status ("fetch_error") or in Image.open or
\* _save_image ("local_error"); both land in the same except clause
DownloadAttempt ==
    /\ pc = "download"
    /\ dl.attempt < max_retries
    /\ IF should_stop
       THEN /\ dl' = [dl EXCEPT !.stopped = TRUE, !.result = "false"]
            /\ pc' = "after_download"
            /\ UNCHANGED <<files, item>>
       ELSE \E outcome \in {"ok", "fetch_error", "local_error"} :
            /\ Recorded([item EXCEPT !.fetched = outcome])
            /\ IF outcome = "ok"
               THEN /\ files' = files \cup {dl.filepath}
                    /\ dl' = [dl EXCEPT !.fetches = @ + 1, !.result = "true"]
                    /\ pc' = "after_download"
               ELSE LET last == dl.attempt + 1 = max_retries
                    IN  /\ UNCHANGED files
                        /\ dl' = [dl EXCEPT
                                   !.fetches = @ + 1,
                                   !.attempt = @ + 1,
                                   !.sleeps = IF RetryAgain(dl.attempt)
                                              THEN Append(@, Backoff(dl.attempt))
                                              ELSE @,
                                   !.final_logged = ~RetryAgain(dl.attempt),
                                   !.result = IF last THEN "false" ELSE "pending"]
                        /\ pc' = IF last THEN "after_download" ELSE "download"
    /\ UNCHANGED <<shellVars, radioVars, formVars, loopVars, clean_name,
                   last_saved, cancelled, summary, plain_rows, progress,
                   edited, wb, fn>>

\* _download_and_save has returned: the rest of the row
RowAfterDownload ==
    /\ pc = "after_download"
    /\ RowDone(ColRowCounts(FALSE, TRUE, dl.result = "true"))
    /\ IF dl.result = "true"
       THEN last_saved' = [name |-> clean_name, path |-> dl.filepath,
                           origin |-> dl.origin]
       ELSE UNCHANGED last_saved
    /\ clean_name' = <<>>
    /\ dl' = DlIdle
    /\ UNCHANGED <<shellVars, radioVars, formVars, files, cancelled, summary,
                   plain_rows, item, edited, wb, fn>>

ColLoopEnd ==
    /\ pc = "col_loop"
    /\ row_idx > max_row
    /\ PrintSummary(FALSE)
    /\ UNCHANGED <<shellVars, radioVars, formVars, loopVars, rowVars, files,
                   last_saved, plain_rows, item, edited, fn>>

\* the program after construction, idle
ShellInit ==
    /\ running = FALSE
    /\ stop_requested = FALSE
    /\ pc = "idle"
    /\ LocalsUnset
    /\ HistoryEmpty
    /\ files = {}
    /\ progress = ProgressReady
    /\ wb = "none"
    /\ edited = FALSE

Init ==
    /\ ShellInit
    /\ FormInit
    /\ mode_all \in BOOLEAN
    /\ naming_rb \in NamingModes
    /\ start_spin \in StartNums
    /\ name_col_input \in NameColumns
    /\ mode_all => name_col_input = <<>>   \* read in BY_COLUMN mode only
    /\ item = NotRecorded
    /\ fn = FnNone

Next ==
    \/ _on_start
    \/ _on_stop
    \/ _on_done
    \/ EditTemplate
    \/ DoWorkLoadFails
    \/ DoWorkRaises
    \/ ExtractAllBegin
    \/ AllEntry
    \/ AllLoopEnd
    \/ ExtractByColumnBegin
    \/ ColRow
    \/ DownloadAttempt
    \/ RowAfterDownload
    \/ ColLoopEnd

Spec == Init /\ [][Next]_vars

(***************************************************************************)
(* The same program with the items recorded, under the texts the form is   *)
(* constructed with: sequential names from 1, no retyping.                 *)
(***************************************************************************)
InitItems ==
    /\ ShellInit
    /\ FormInit
    /\ mode_all \in BOOLEAN
    /\ naming_rb = NAMING_SEQ
    /\ start_spin = 1
    /\ name_col_input \in NameColumns
    /\ mode_all => name_col_input = <<>>
    /\ item = ItemNone
    /\ fn = FnNone

NextItems ==
    \/ _on_start
    \/ _on_stop
    \/ _on_done
    \/ DoWorkLoadFails
    \/ DoWorkRaises
    \/ ExtractAllBegin
    \/ AllEntry
    \/ AllLoopEnd
    \/ ExtractByColumnBegin
    \/ ColRow
    \/ DownloadAttempt
    \/ RowAfterDownload
    \/ ColLoopEnd

SpecItems == InitItems /\ [][NextItems]_vars

\* the steps of the worker thread: once started, QThread runs do_work to its
\* return, whatever the user does in the window
WorkerStep ==
    \/ DoWorkLoadFails
    \/ DoWorkRaises
    \/ ExtractAllBegin
    \/ AllEntry
    \/ AllLoopEnd
    \/ ExtractByColumnBegin
    \/ ColRow
    \/ DownloadAttempt
    \/ RowAfterDownload
    \/ ColLoopEnd

SpecItemsFair == InitItems /\ [][NextItems]_vars /\ WF_vars(WorkerStep)

(***************************************************************************)
(* Inputs of the functions checked on their own.                           *)
(***************************************************************************)
RECURSIVE StringsUpTo(_, _)
StringsUpTo(alphabet, n) ==
    IF n = 0 THEN {<<>>}
    ELSE LET shorter == StringsUpTo(alphabet, n - 1)
         IN  shorter \cup {s \o <<c>> : s \in shorter, c \in alphabet}

\* k copies of character c
Repeat(c, k) == [q \in 1..k |-> c]

NameAlphabet == {"a", ".", " ", "/", "\t", "\f"}

ShortNames == StringsUpTo(NameAlphabet, MaxStrLen)

\* names around the truncation limit: a run of "a", a short head before it
\* and a short tail after it
LongNames ==
    {h \o Repeat("a", k) \o t :
        h \in {<<>>, <<".">>},
        k \in (DefaultMaxLength - 4)..(DefaultMaxLength + MaxOver),
        t \in {<<>>, <<".">>, <<".", "b">>, <<" ", "b", "b", "b", "b">>}}

NameInputs == ShortNames \cup LongNames

Counters == 0..MaxCounter

LinkTexts ==
    {NoneVal} \cup {StrVal(s) : s \in StringsUpTo({"a", " ", "/", "."}, 2)}

\* base names and the files a directory may hold before a call
PathNames == {<<"a">>, <<"a", "_", "1">>}

MaxSuffix == 2

PathUniverse ==
    {PlainPath(nm, PNG) : nm \in PathNames}
        \cup {SuffixedPath(nm, k, PNG) : nm \in PathNames, k \in 1..MaxSuffix}
        \cup {PlainPath(<<"a">>, JPG)}

\* the names zf.namelist() may give, and the lists of them without repeats
MemberUniverse ==
    {Image1Png, Image3Png, Image10Png, Image01Png, LogoPng, Image7Jp2,
     MediaDir, Drawing1Xml}

NameLists ==
    {l \in UNION {[1..n -> MemberUniverse] : n \in 0..MaxMembers} :
        \A a, b \in 1..Len(l) : a # b => l[a] # l[b]}

\* the cells _get_url_from_cell is called on: [hyperlink, target, value]
FnTargets ==
    {NoneVal, StrVal(<<>>), StrVal(<<" ">> \o UrlT), StrVal(FtpX),
     StrVal(ExampleCom)}

FnValues ==
    {NoneVal, NumVal(5), StrVal(<<>>), StrVal(<<" ">> \o UrlB \o <<" ">>),
     StrVal(UrlA), StrVal(FtpX), StrVal(ExampleCom),
     StrVal(<<"R", "e", "d">>), StrVal(<<"h", "t", "t", "p">>),
     StrVal(<<"H", "T", "T", "P", ":", "/", "/", "a">>)}

FnCells ==
    {[hyperlink |-> FALSE, target |-> NoneVal, value |-> v] : v \in FnValues}
        \cup {[hyperlink |-> TRUE, target |-> t, value |-> v] :
                t \in FnTargets, v \in FnValues}

\* the rows _resolve_column_name is called on: name cells and image cells
\* that are empty, blank, numbers (0 too), texts and URLs, and hyperlinks
\* whose display text is a text, a URL or missing
FnNameValues ==
    NameValues \cup {NumVal(0), StrVal(<<" ", " ">>)}

FnCellValues ==
    CellValues \cup {NumVal(0), NumVal(5), StrVal(<<" ">>)}

FnCellLinks ==
    CellLinks \cup {<<TRUE, StrVal(UrlT), StrVal(<<" ">> \o UrlA)>>,
                    <<TRUE, StrVal(UrlT), StrVal(<<" ", "d", "/">>)>>}

FnRows ==
    {[name_value |-> nv, value |-> v, hyperlink |-> l[1], target |-> l[2],
      display |-> l[3], embedded |-> "none"] :
        nv \in FnNameValues, v \in FnCellValues, l \in FnCellLinks}

\* a call of a function on its own: the function, its arguments, and its
\* result once it has returned
FnCall(op, args) == [op |-> op, in |-> args, done |-> FALSE, out |-> <<>>]

\* the outcomes of the steps of a conversion
Conversions ==
    [create_ok : BOOLEAN, write_ok : BOOLEAN,
     platform : {"darwin", "linux", "win32"},
     sips : UtilityOutcomes, magick : UtilityOutcomes, convert : UtilityOutcomes,
     decode_ok : BOOLEAN]

FnCalls ==
    {FnCall("get_safe_filename", <<s>>) : s \in NameInputs}
        \cup {FnCall("_make_name", <<mode, count, link_text>>) :
                mode \in NamingModes, count \in Counters, link_text \in LinkTexts}
        \cup {FnCall("_get_unique_path", <<directory, name, fmt>>) :
                directory \in SUBSET PathUniverse, name \in PathNames,
                fmt \in {PNG, JPG}}
        \cup {FnCall("SortedMediaFiles", <<namelist>>) : namelist \in NameLists}
        \cup {FnCall("_get_url_from_cell", <<c>>) : c \in FnCells}
        \cup {FnCall("_convert_vector_to_image", <<c>>) : c \in Conversions}
        \cup {FnCall("_open_image_data", <<data, media_name, c>>) :
                data \in EntryData \cup
                    {[decodable |-> FALSE, header |-> "01000900", len |-> 8]},
                media_name \in {Image1Emf, Image2Png,
                                Member(<<"a", ".", "W", "M", "F">>),
                                Member(<<"x">>)},
                c \in {d \in Conversions : d.create_ok /\ d.write_ok}}
        \cup {FnCall("_resolve_column_name", <<row, name_col, naming, count>>) :
                row \in FnRows, name_col \in NameColumns, naming \in NamingModes,
                count \in {1, MaxCounter}}

Returned(op) == fn.op = op /\ fn.done

Call_get_safe_filename ==
    /\ fn.op = "get_safe_filename" /\ ~fn.done
    /\ fn' = [fn EXCEPT !.done = TRUE,
                        !.out = get_safe_filename(fn.in[1], DefaultMaxLength)]
    /\ UNCHANGED <<shellVars, radioVars, formVars, pc, loopVars, rowVars, files,
                   histVars, edited, wb>>

Call_make_name ==
    /\ fn.op = "_make_name" /\ ~fn.done
    /\ fn' = [fn EXCEPT !.done = TRUE,
                        !.out = _make_name(fn.in[1], fn.in[2], fn.in[3])]
    /\ UNCHANGED <<shellVars, radioVars, formVars, pc, loopVars, rowVars, files,
                   histVars, edited, wb>>

Call_get_unique_path ==
    /\ fn.op = "_get_unique_path" /\ ~fn.done
    /\ fn' = [fn EXCEPT !.done = TRUE,
                        !.out = _get_unique_path(fn.in[1], fn.in[2], fn.in[3])]
    /\ UNCHANGED <<shellVars, radioVars, formVars, pc, loopVars, rowVars, files,
                   histVars, edited, wb>>

Call_SortedMediaFiles ==
    /\ fn.op = "SortedMediaFiles" /\ ~fn.done
    /\ fn' = [fn EXCEPT !.done = TRUE, !.out = SortedMediaFiles(fn.in[1])]
    /\ UNCHANGED <<shellVars, radioVars, formVars, pc, loopVars, rowVars, files,
                   histVars, edited, wb>>

Call_get_url_from_cell ==
    /\ fn.op = "_get_url_from_cell" /\ ~fn.done
    /\ fn' = [fn EXCEPT !.done = TRUE, !.out = _get_url_from_cell(fn.in[1])]
    /\ UNCHANGED <<shellVars, radioVars, formVars, pc, loopVars, rowVars, files,
                   histVars, edited, wb>>

\* _open_image_data with the converter it may call: what it returns, and
\* the utilities that were run for it
Call_open_image_data ==
    /\ fn.op = "_open_image_data" /\ ~fn.done
    /\ LET data == fn.in[1]
           media_name == fn.in[2]
           conv == _convert_vector_to_image(fn.in[3])
           called == ~data.decodable /\ is_emf_wmf(data, media_name)
       IN  fn' = [fn EXCEPT
                    !.done = TRUE,
                    !.out = [result |-> _open_image_data(data, media_name,
                                                         conv.img = "image"),
                             called |-> called,
                             invoked |-> IF called THEN conv.invoked ELSE <<>>]]
    /\ UNCHANGED <<shellVars, radioVars, formVars, pc, loopVars, rowVars, files,
                   histVars, edited, wb>>

Call_convert_vector_to_image ==
    /\ fn.op = "_convert_vector_to_image" /\ ~fn.done
    /\ fn' = [fn EXCEPT !.done = TRUE, !.out = _convert_vector_to_image(fn.in[1])]
    /\ UNCHANGED <<shellVars, radioVars, formVars, pc, loopVars, rowVars, files,
                   histVars, edited, wb>>

Call_resolve_column_name ==
    /\ fn.op = "_resolve_column_name" /\ ~fn.done
    /\ fn' = [fn EXCEPT !.done = TRUE,
                        !.out = _resolve_column_name(fn.in[1], fn.in[2], fn.in[3],
                                                     fn.in[4])]
    /\ UNCHANGED <<shellVars, radioVars, formVars, pc, loopVars, rowVars, files,
                   histVars, edited, wb>>

\* the form a function is called under: _make_name reads the naming texts
FnPrefixTexts == {ImageText, <<>>, <<"P">>, <<"a", "/">>}

FnSepTexts == {<<"_">>, <<>>}

FnTemplateTexts ==
    {DefaultTemplate, <<>>, <<"t">>, <<"{", "n", "}", "x", "{", "n", "}">>,
     <<":", "{", "n", "}">>}

\* the shell is idle; _make_name is called under any of the naming texts
FnInit ==
    /\ ShellInit
    /\ mode_all = TRUE
    /\ naming_rb = NAMING_SEQ
    /\ start_spin = 1
    /\ name_col_input = <<>>
    /\ item = NotRecorded
    /\ fn \in FnCalls
    /\ prefix_input \in FnPrefixTexts
    /\ prefix_sep_input \in FnSepTexts
    /\ regex_input \in FnTemplateTexts
    /\ fn.op # "_make_name" => FormInit

FnNext ==
    \/ Call_get_safe_filename
    \/ Call_make_name
    \/ Call_get_unique_path
    \/ Call_SortedMediaFiles
    \/ Call_get_url_from_cell
    \/ Call_convert_vector_to_image
    \/ Call_open_image_data
    \/ Call_resolve_column_name

SpecFn == FnInit /\ [][FnNext]_vars

(***************************************************************************)
(* C2: _get_unique_path returns a path that is not in the directory at     *)
(* call time, and it is the first free one in the probe order name.fmt,    *)
(* name_1.fmt, name_2.fmt, ...                                             *)
(***************************************************************************)
\* the k-th path of the probe order
ProbeAt(name, fmt, k) ==
    IF k = 0 THEN PlainPath(name, fmt) ELSE SuffixedPath(name, k, fmt)

C2_UniquePathFirstFree ==
    Returned("_get_unique_path") =>
        LET directory == fn.in[1]
            name == fn.in[2]
            fmt == fn.in[3]
        IN  /\ fn.out \notin directory
            /\ \E k \in 0..Cardinality(directory) :
                /\ fn.out = ProbeAt(name, fmt, k)
                /\ \A j \in 0..(k - 1) : ProbeAt(name, fmt, j) \in directory

\* name.fmt and name_1.fmt are taken, name_2.fmt is returned
C2_Witness ==
    /\ Returned("_get_unique_path")
    /\ PlainPath(fn.in[2], fn.in[3]) \in fn.in[1]
    /\ SuffixedPath(fn.in[2], 1, fn.in[3]) \in fn.in[1]
    /\ fn.out = SuffixedPath(fn.in[2], 2, fn.in[3])

(***************************************************************************)
(* C3: the media members are processed in ascending order of the integer   *)
(* that their last run of digits spells (0 without digits), and members    *)
(* with the same key keep the order the archive lists them in.             *)
(***************************************************************************)
\* the key the claim describes, from the positions of the digits
NumericKey(path) ==
    LET ds == {q \in 1..Len(path) : path[q] \in DigitChars}
    IN  IF ds = {} THEN 0
        ELSE LET e == CHOOSE q \in ds : \A r \in ds : r <= q
                 run == {q \in 1..e : \A r \in q..e : r \in ds}
                 b == CHOOSE q \in run : \A r \in run : q <= r
             IN  StrToNat(SubSeq(path, b, e))

\* where x stands in list l
PositionIn(l, x) == CHOOSE q \in 1..Len(l) : l[q] = x

C3_ArchiveOrdering ==
    Returned("SortedMediaFiles") =>
        LET given == fn.in[1]
            out == fn.out
            media == {q \in 1..Len(given) : IsMediaFile(given[q])}
        IN  /\ Len(out) = Cardinality(media)
            /\ {out[q] : q \in 1..Len(out)} = {given[q] : q \in media}
            /\ \A a, b \in 1..Len(out) :
                a < b =>
                    /\ NumericKey(out[a]) <= NumericKey(out[b])
                    /\ NumericKey(out[a]) = NumericKey(out[b]) =>
                        PositionIn(given, out[a]) < PositionIn(given, out[b])
            /\ given = <<Image3Png, Image10Png, Image1Png>> =>
                out = <<Image1Png, Image3Png, Image10Png>>

\* image10 is listed before image01 and image1, which share key 1
C3_Witness ==
    /\ Returned("SortedMediaFiles")
    /\ fn.in[1] = <<Image10Png, Image01Png, Image1Png>>
    /\ fn.out = <<Image01Png, Image1Png, Image10Png>>

(***************************************************************************)
(* C5: _get_url_from_cell returns a text only if, trimmed, it starts with  *)
(* "http://" or "https://"; the hyperlink's target is looked at before the *)
(* cell's value; any other cell gives None.                                *)
(***************************************************************************)
C5_UrlGating ==
    Returned("_get_url_from_cell") =>
        LET c == fn.in[1]
            by_target == c.hyperlink /\ c.target.kind = "str"
                            /\ IsUrl(Strip(c.target.s))
            by_value == c.value.kind = "str" /\ IsUrl(Strip(c.value.s))
        IN  /\ fn.out # NoneVal => fn.out.kind = "str" /\ IsUrl(fn.out.s)
            /\ by_target => fn.out = StrVal(Strip(c.target.s))
            /\ ~by_target /\ by_value => fn.out = StrVal(Strip(c.value.s))
            /\ ~by_target /\ ~by_value => fn.out = NoneVal
            /\ ~c.hyperlink /\ c.value \in {StrVal(ExampleCom), StrVal(FtpX)} =>
                fn.out = NoneVal

\* target and value are both URLs: the target is returned, trimmed
C5_Witness ==
    /\ Returned("_get_url_from_cell")
    /\ fn.in[1].hyperlink
    /\ fn.in[1].target = StrVal(<<" ">> \o UrlT)
    /\ fn.in[1].value = StrVal(UrlA)
    /\ fn.out = StrVal(UrlT)

(***************************************************************************)
(* C4: sanitising twice gives what sanitising once gives.                  *)
(***************************************************************************)
C4_SanitizeIdempotent ==
    Returned("get_safe_filename") =>
        get_safe_filename(fn.out, DefaultMaxLength) = fn.out

(***************************************************************************)
(* C10: what _make_name returns for each policy.                           *)
(***************************************************************************)
\* d is the decimal numeral of n, without padding
IsDecimalOf(d, n) ==
    /\ d # <<>>
    /\ \A q \in 1..Len(d) : d[q] \in DigitChars
    /\ Len(d) > 1 => d[1] # "0"
    /\ StrToNat(d) = n

\* number of places where `old` occurs in s
Occurrences(s, old) ==
    Cardinality({q \in 1..Len(s) : StartsWith(SubSeq(s, q, Len(s)), old)})

\* the mapping, given the template the TEMPLATE policy works from
MakeNameMapping(tpl) ==
    LET mode == fn.in[1]
        count == fn.in[2]
        link_text == fn.in[3]
        out == fn.out
        prefix == IF prefix_input = <<>> THEN ImageText ELSE prefix_input
        head == prefix \o prefix_sep_input
    IN  /\ mode = NAMING_SEQ => IsDecimalOf(out, count)
        /\ mode = NAMING_PREFIX =>
            /\ StartsWith(out, head)
            /\ IsDecimalOf(SubSeq(out, Len(head) + 1, Len(out)), count)
        /\ mode = NAMING_LINK =>
            IF link_text.kind = "str" /\ Strip(link_text.s) # <<>>
            THEN out = get_safe_filename(link_text.s, DefaultMaxLength)
            ELSE IsDecimalOf(out, count)
        /\ mode = NAMING_REGEX =>
            /\ out = Replace(tpl, Placeholder, IntToStr(count))
            /\ Occurrences(out, Placeholder) = 0
            /\ Len(out) = Len(tpl)
                    + Occurrences(tpl, Placeholder) * (Len(IntToStr(count)) - 3)
            /\ Occurrences(tpl, Placeholder) = 0 => out = tpl

\* the claim as written: the template is the text of the template edit
C10_MakeNameAsClaimed ==
    Returned("_make_name") => MakeNameMapping(regex_input)

\* amended: an empty template edit stands for "img_{n}"
C10_MakeNameMapping ==
    Returned("_make_name") =>
        MakeNameMapping(IF regex_input = <<>> THEN DefaultTemplate ELSE regex_input)

\* a template with two {n}, a counter of two digits
C10_Witness ==
    /\ Returned("_make_name")
    /\ fn.in[1] = NAMING_REGEX
    /\ fn.in[2] >= 10
    /\ Occurrences(regex_input, Placeholder) = 2
    /\ fn.out = <<"1", "1", "x", "1", "1">>

(***************************************************************************)
(* C1: under a fixed policy (SEQUENTIAL, PREFIXED, or TEMPLATE with {n})   *)
(* the counter is the start number plus the number of saves; it moves by   *)
(* one on a save and on nothing else; and a save named by the resolver     *)
(* gets the policy's name for that counter, which differs from the name of *)
(* the save before it.                                                     *)
(***************************************************************************)
InLoop == pc \in {"all_loop", "col_loop", "download", "after_download"}

\* the policies of the claim, with the texts as they were when the run began
FixedPolicy ==
    /\ ~edited
    /\ naming_mode \in {NAMING_SEQ, NAMING_PREFIX, NAMING_REGEX}
    /\ naming_mode = NAMING_REGEX => Occurrences(regex_input, Placeholder) > 0

C1_SaveStep ==
    (InLoop /\ FixedPolicy /\ FixedPolicy') =>
        /\ InLoop' => counter' = start_num + success'
        /\ success' \in {success, success + 1}
        /\ success' = success =>
            /\ counter' = counter \/ ~InLoop'
            /\ last_saved' = last_saved \/ ~InLoop'
        /\ success' = success + 1 =>
            /\ counter' = counter + 1
            /\ last_saved'.origin = "resolver" =>
                /\ last_saved'.name =
                    _make_name(naming_mode, start_num + success, NoneVal)
                /\ last_saved.origin = "resolver" =>
                    last_saved'.name # last_saved.name

C1_NamingDeterminism ==
    /\ [](InLoop /\ FixedPolicy => counter = start_num + success)
    /\ [][C1_SaveStep]_vars

\* PREFIXED from 9: a save, a failure, and the second save is Image_10
C1_Witness ==
    /\ InLoop
    /\ FixedPolicy
    /\ naming_mode = NAMING_PREFIX
    /\ start_num = 9
    /\ success = 2
    /\ failed = 1
    /\ last_saved.origin = "resolver"
    /\ last_saved.name = ImageText \o <<"_", "1", "0">>

(***************************************************************************)
(* C6: a download whose attempts all fail, and that is not cancelled,      *)
(* makes max_retries fetches, sleeps 1 s and 2 s after the first two and   *)
(* not after the last, leaves no file at its path, logs the final error    *)
(* and returns False to the row loop.                                      *)
(***************************************************************************)
C6_RetryExhaustion ==
    /\ pc \in {"download", "after_download"} => dl.fetches <= max_retries
    /\ (pc = "download" /\ dl.attempt = dl.fetches) =>
        /\ dl.sleeps = [k \in 1..dl.attempt |-> k]
        /\ ~dl.final_logged
    /\ (pc = "after_download" /\ dl.attempt = dl.fetches /\ ~dl.stopped) =>
        /\ dl.fetches = 3
        /\ dl.sleeps = <<1, 2>>
        /\ dl.final_logged
        /\ dl.filepath \notin files
        /\ dl.result = "false"

\* three failed fetches, with no stop requested
C6_Witness ==
    /\ pc = "after_download"
    /\ ~stop_requested
    /\ dl.fetches = max_retries
    /\ dl.attempt = max_retries
    /\ dl.result = "false"

(***************************************************************************)
(* C7: once the stop flag is set the worker starts no entry and no row,    *)
(* issues no fetch and saves nothing; what was saved stays; the summary of *)
(* a cancelled run counts the items processed before the stop, and the     *)
(* rest are untouched.  The row whose download returned before the stop    *)
(* was seen, or was cut short by it, is still counted.                     *)
(***************************************************************************)
C7_StopStep ==
    (stop_requested /\ InLoop) =>
        /\ files' = files
        /\ dl'.fetches <= dl.fetches
        /\ i' = i
        /\ row_idx' # row_idx => pc = "after_download"
        /\ success' # success => pc = "after_download" /\ dl.result = "true"
        /\ (pc = "all_loop" /\ pc' # pc) => pc' = "finished"
        /\ (pc = "col_loop" /\ pc' # pc) => pc' = "finished"
        /\ (pc = "download" /\ pc' # pc) => pc' = "after_download" /\ dl'.stopped
        /\ (pc' = "finished" /\ mode_all /\ i < total) => cancelled'
        /\ (pc' = "finished" /\ ~mode_all /\ row_idx <= max_row) => cancelled'

C7_CancelledSummary ==
    (pc = "finished" /\ cancelled) =>
        /\ summary.done
        /\ summary.success <= Cardinality(files)
        /\ mode_all =>
            /\ i < total
            /\ summary.success + summary.failed = i
        /\ ~mode_all =>
            /\ row_idx <= max_row
            /\ summary.success <= row_idx - start_row
            /\ summary.failed <= row_idx - start_row
            /\ summary.skipped <= row_idx - start_row

C7_Cancellation == []C7_CancelledSummary /\ [][C7_StopStep]_vars

\* a stop after the first of three entries: one saved, two untouched
C7_Witness ==
    /\ pc = "finished"
    /\ cancelled
    /\ mode_all
    /\ total = 3
    /\ i = 1
    /\ summary.success = 1
    /\ Cardinality(files) >= 1

(***************************************************************************)
(* C8: in ALL mode every processed entry is counted once, as a success or  *)
(* as a failure: success + failed is the number of entries processed, and  *)
(* the total at the summary of a run that was not cancelled; an entry that *)
(* fails takes no counter value.                                           *)
(***************************************************************************)
C8_AllModeCounting ==
    /\ pc = "all_loop" =>
        /\ success + failed = i
        /\ counter = start_num + success
    /\ (pc = "finished" /\ mode_all /\ summary.done) =>
        /\ summary.total = total
        /\ summary.success + summary.failed = i
        /\ ~cancelled => summary.success + summary.failed = summary.total

\* image1.emf fails, image2.png and image3.jpg are saved as 1 and 2
C8_Witness ==
    /\ pc = "finished"
    /\ ~cancelled
    /\ media_files = <<Image1Emf, Image2Png, Image3Jpg>>
    /\ naming_mode = NAMING_SEQ
    /\ start_num = 1
    /\ summary = [done |-> TRUE, total |-> 3, success |-> 2, failed |-> 1,
                  skipped |-> 0]
    /\ last_saved.name = <<"2">>
    /\ PlainPath(<<"1">>, PNG) \in files
    /\ PlainPath(<<"2">>, PNG) \in files

(***************************************************************************)
(* C9: the skipped count is the number of processed rows that had neither  *)
(* an embedded image nor a valid URL; a row whose download fails is failed *)
(* and not skipped.  Stated for runs in which no stop is requested.         *)
(***************************************************************************)
C9_SkippedCount == ~stop_requested => skipped = plain_rows

(***************************************************************************)
(* C11: _make_name returns a name that is not empty, for every policy,     *)
(* counter, prefix, separator, template and link text, the empty ones      *)
(* included.                                                               *)
(***************************************************************************)
C11_MakeNameNonEmpty ==
    Returned("_make_name") => Len(fn.out) > 0

\* TEMPLATE with the template edit empty: the name is img_<counter>
C11_Witness ==
    /\ Returned("_make_name")
    /\ fn.in[1] = NAMING_REGEX
    /\ regex_input = <<>>
    /\ prefix_input = <<>>
    /\ prefix_sep_input = <<>>
    /\ fn.in[2] = 0
    /\ fn.out = <<"i", "m", "g", "_", "0">>

(***************************************************************************)
(* C12: the base name of a row is (a) the sanitized value of the name      *)
(* column's cell when a name column is set and the cell, trimmed, is not   *)
(* empty and not a URL; else (b) under LINK_TEXT the sanitized text of the *)
(* image cell, or failing that the hyperlink's display text, when it is    *)
(* not empty and not a URL; else (c) the resolver's name for the counter.  *)
(* A name taken from a cell never starts with http:// or https://.         *)
(***************************************************************************)
\* the text of a cell value, trimmed
CellText(v) == Strip(PyStr(v))

\* a text that may serve as a name: not empty after trimming, not a URL
UsableAsName(v) == CellText(v) # <<>> /\ ~IsUrl(CellText(v))

\* the name a cell value gives
SanitizedText(v) == get_safe_filename(CellText(v), DefaultMaxLength)

TakesRow == pc = "col_loop" /\ (row_idx' = row_idx + 1 \/ pc' = "download")

C13_RowStep ==
    /\ (TakesRow /\ item'.error # "row") =>
        /\ pc' = "download" <=> (~item'.embedded_saved /\ item'.url)
        /\ item'.embedded_saved =>
            /\ item'.lookup = "image"
            /\ Cardinality(files') = Cardinality(files) + 1
            /\ success' = success + 1
        /\ ~item'.embedded_saved => files' = files
        /\ (item'.lookup \in {"none", "raises", "no_loader"} /\ item'.url) =>
            pc' = "download"
    /\ pc = "download" =>
        /\ files' \subseteq files \cup {dl.filepath}
        /\ files' # files => pc' = "after_download" /\ dl'.result = "true"
    /\ pc = "after_download" =>
        /\ files' = files
        /\ pc' # pc => success' = success + (IF dl.result = "true" THEN 1 ELSE 0)

C13_EmbeddedFirst ==
    /\ [](pc \in {"download", "after_download"} =>
            /\ ~item.embedded_saved
            /\ item.url
            /\ item.lookup # "untried")
    /\ [][C13_RowStep]_vars

\* the lookup raised, the cell holds a URL, and the download saved the image
C13_Witness ==
    /\ pc = "after_download"
    /\ item.lookup = "raises"
    /\ item.url
    /\ dl.result = "true"
    /\ dl.filepath \in files

(***************************************************************************)
(* C14, as stated: every error raised while an entry or a row is processed *)
(* (read, decode, embedded lookup, save, download) has the item counted as *)
(* failed.                                                                 *)
(***************************************************************************)
\* an entry or a row has just been taken up
TakesItem == (pc = "all_loop" /\ i' = i + 1) \/ TakesRow

C14_EveryErrorFails ==
    [][(TakesItem /\ item'.error # "none") => failed' = failed + 1]_vars

(***************************************************************************)
(* C14, amended: no error of an item ends the run.  An error of an archive *)
(* entry (read, decode, save), an error of a row outside the embedded      *)
(* attempt, and a download that gave up each count the item as failed and  *)
(* the loop goes on to the next item.  An error inside the embedded        *)
(* attempt (lookup or save) is only logged: the row goes on to its URL,    *)
(* and without a URL it is counted as skipped, not failed.  An uncancelled *)
(* run takes up every candidate and reaches the summary.                   *)
(***************************************************************************)
C14_ItemStep ==
    /\ (pc = "all_loop" /\ i' = i + 1 /\ item'.error # "none") =>
        /\ item'.error \in {"read", "decode", "save"}
        /\ failed' = failed + 1
        /\ success' = success
        /\ files' = files
        /\ pc' = "all_loop"
    /\ (TakesRow /\ item'.error = "row") =>
        /\ failed' = failed + 1
        /\ success' = success /\ skipped' = skipped
        /\ files' = files
        /\ row_idx' = row_idx + 1
        /\ pc' = "col_loop"
    /\ (TakesRow /\ item'.error \in {"lookup", "save"}) =>
        /\ failed' = failed
        /\ files' = files
        /\ IF item'.url
           THEN pc' = "download" /\ row_idx' = row_idx
           ELSE pc' = "col_loop" /\ row_idx' = row_idx + 1
                /\ skipped' = skipped + 1
    /\ (pc = "after_download" /\ pc' # pc /\ dl.result = "false") =>
        /\ failed' = failed + 1
        /\ success' = success
        /\ row_idx' = row_idx + 1
        /\ pc' = "col_loop"
    /\ (InLoop /\ ~InLoop') => progress'.status = "summary"

C14_ItemErrorsNotFatal ==
    /\ [][C14_ItemStep]_vars
    /\ [](summary.done /\ ~cancelled =>
            /\ mode_all => i = total
            /\ ~mode_all => row_idx = max_row + 1)
    /\ (InLoop ~> (pc = "finished" /\ progress.status = "summary"))

\* a run in which a read failed, a row raised, an embedded lookup raised on
\* a row without a URL and a download gave up has reached its summary
C14_Witness ==
    /\ summary.done
    /\ ~cancelled
    /\ summary.failed >= 1
    /\ summary.skipped >= 1
    /\ item.error = "lookup"
    /\ ~item.url

(***************************************************************************)
(* C15: when the workbook cannot be opened or the sheet is missing,        *)
(* do_work returns without entering either strategy: the run ends with no  *)
(* image saved, every count and strategy local untouched, no item taken    *)
(* up, no summary and the progress bar where _on_start left it.            *)
(***************************************************************************)
C15_LoadFailureStep ==
    item'.error = "load" /\ item.error # "load" =>
        /\ pc = "do_work"
        /\ pc' = "finished"
        /\ files' \in DirContents
        /\ UNCHANGED <<loopVars, rowVars, summary, progress, last_saved>>

C15_LoadFailure ==
    /\ [](item.error = "load" =>
            /\ pc = "finished"
            /\ LocalsUnset
            /\ HistoryEmpty
            /\ files \in DirContents
            /\ progress = Progress(0, 1, "processing"))
    /\ [][C15_LoadFailureStep]_vars

\* the load has failed in a run whose output directory already held a file
C15_Witness ==
    /\ item.error = "load"
    /\ pc = "finished"
    /\ running
    /\ files # {}

(***************************************************************************)
(* C16: a strategy that finds nothing to process (no media entry in ALL    *)
(* mode; in BY_COLUMN mode a last row that is undefined or below the start *)
(* row) sets the progress bar to 100 with its "nothing found" status and   *)
(* returns: no item is taken up, no file is saved, nothing is counted, no  *)
(* summary is printed and no error is recorded.  A strategy that finds     *)
(* something enters its loop instead.                                      *)
(***************************************************************************)
NothingFound == progress.status \in {"no_images", "no_data"}

C16_BeginStep ==
    (pc = "do_work" /\ pc' # pc /\ item'.error = "none") =>
        /\ ~mode_all =>
            /\ (max_row' = NoRow \/ max_row' < start_row) <=>
                    progress' = Progress(1, 1, "no_data")
            /\ progress'.status # "no_data" =>
                    pc' = "col_loop" /\ total' = max_row' - start_row + 1
        /\ mode_all =>
            /\ total' = 0 <=> progress' = Progress(1, 1, "no_images")
            /\ progress'.status # "no_images" =>
                    pc' = "all_loop" /\ total' = Len(media_files')

C16_EmptyCompletion ==
    /\ [](NothingFound =>
            /\ progress.num = progress.den
            /\ (progress.status = "no_images") = mode_all
            /\ pc \in {"finished", "idle"}
            /\ pc = "finished" =>
                /\ item = ItemNone
                /\ files \in DirContents
                /\ HistoryEmpty
                /\ success = 0 /\ failed = 0 /\ skipped = 0 /\ total = 0
                /\ i = 0 /\ row_idx = 0 /\ dl = DlIdle)
    /\ [][C16_BeginStep]_vars

\* a sheet whose last row is above the start row: nothing to process
C16_Witness ==
    /\ pc = "finished"
    /\ progress = Progress(1, 1, "no_data")
    /\ max_row = start_row - 1

(***************************************************************************)
(* C17: every base name the resolver hands to the path allocation, whether *)
(* it comes from a name-column cell, a link text, the typed prefix and     *)
(* separator or the typed template, contains none of \ / * ? : " < > | and *)
(* no CR, LF or TAB.                                                       *)
(***************************************************************************)
C17_NamesSanitized ==
    (Returned("_make_name") \/ Returned("_resolve_column_name")) =>
        \A k \in 1..Len(fn.out) : fn.out[k] \notin ForbiddenChars

(***************************************************************************)
(* C18, as stated: get_safe_filename replaces each forbidden character by  *)
(* "_", removes leading and trailing whitespace and trailing periods while *)
(* keeping leading periods, cuts a result longer than 100 characters to    *)
(* its first 97 followed by "...", and gives the placeholder for an empty  *)
(* result.                                                                 *)
(***************************************************************************)
C18_LeadingPeriodsKept ==
    Returned("get_safe_filename") =>
        fn.out = SafeFilenameTrailingOnly(fn.in[1], DefaultMaxLength)

(***************************************************************************)
(* C18, amended: get_safe_filename takes the input from its first to its   *)
(* last non-whitespace character, replaces each forbidden character in it  *)
(* by "_", takes of that the part from the first to the last character     *)
(* that is neither a period nor a space (periods go at both ends), cuts a  *)
(* result longer than 100 characters to its first 97 followed by "...",    *)
(* and gives the placeholder for an empty result.                          *)
(***************************************************************************)
\* s from its first to its last character outside chars
Between(s, chars) ==
    LET kept == {k \in 1..Len(s) : s[k] \notin chars}
    IN  IF kept = {} THEN <<>>
        ELSE SubSeq(s, CHOOSE k \in kept : \A j \in kept : k <= j,
                       CHOOSE k \in kept : \A j \in kept : k >= j)

C18_SanitizeRule ==
    Returned("get_safe_filename") =>
        LET inner == Between(fn.in[1], Whitespace)
            a == [k \in 1..Len(inner) |->
                    IF inner[k] \in ForbiddenChars THEN "_" ELSE inner[k]]
            b == Between(a, DotSpace)
        IN  /\ Len(b) > 100 =>
                /\ Len(fn.out) = 100
                /\ SubSeq(fn.out, 1, 97) = SubSeq(b, 1, 97)
                /\ SubSeq(fn.out, 98, 100) = <<".", ".", ".">>
            /\ (Len(b) <= 100 /\ b # <<>>) => fn.out = b
            /\ b = <<>> => fn.out = Unnamed

\* a name with a leading period and a forbidden character: the period goes
C18_Witness ==
    /\ Returned("get_safe_filename")
    /\ fn.in[1] = <<".", "/", "a">>
    /\ fn.out = <<"_", "a">>

(***************************************************************************)
(* C19: the result of get_safe_filename (max_length 100) is not empty, has *)
(* at most 100 characters, holds no forbidden character and does not end   *)
(* with a period or a space.                                               *)
(***************************************************************************)
C19_OutputInvariant ==
    Returned("get_safe_filename") =>
        /\ fn.out # <<>>
        /\ Len(fn.out) <= 100
        /\ \A k \in 1..Len(fn.out) : fn.out[k] \notin ForbiddenChars
        /\ fn.out[Len(fn.out)] \notin {".", " "}

(***************************************************************************)
(* C20: the settings of a run are those of its start; retyping the form    *)
(* while the run is active changes no later name.  In particular two       *)
(* names the resolver makes in one TEMPLATE run come from one template:    *)
(* either both or neither begin with the text before {n} of the template   *)
(* the form is constructed with.                                           *)
(***************************************************************************)
FromDefaultTemplate(name) == StartsWith(name, <<"i", "m", "g", "_">>)

C20_SaveStep ==
    (/\ naming_mode = NAMING_REGEX
     /\ last_saved.origin = "resolver"
     /\ last_saved'.origin = "resolver"
     /\ last_saved' # last_saved) =>
        (FromDefaultTemplate(last_saved'.name) <=>
            FromDefaultTemplate(last_saved.name))

C20_ConfigImmutable == [][C20_SaveStep]_vars

(***************************************************************************)
(* C21: in both modes every processed item, saved, failed or skipped, is   *)
(* followed by one progress update whose value is (items processed so      *)
(* far) / total; nothing else moves the bar inside the loop, so the values *)
(* rise strictly and never pass 100; the step that notices a cancellation  *)
(* processes no item and emits no item update.                             *)
(***************************************************************************)
\* an entry or a row has just been finished
FinishesItem ==
    \/ pc = "all_loop" /\ i' = i + 1
    \/ pc \in {"col_loop", "after_download"} /\ row_idx' = row_idx + 1

\* the items finished so far in the running loop
ItemsProcessed == IF mode_all THEN i ELSE row_idx - start_row

C21_ProgressStep ==
    /\ FinishesItem =>
        /\ progress'.status = "item"
        /\ progress'.num * total = ItemsProcessed' * progress'.den
        /\ progress'.num * progress.den > progress.num * progress'.den
    /\ (InLoop /\ InLoop' /\ progress' # progress) => FinishesItem
    /\ (InLoop /\ ~InLoop' /\ cancelled') =>
        /\ ItemsProcessed' = ItemsProcessed
        /\ progress'.status = "summary"
        /\ UNCHANGED <<success, failed, skipped, files>>

C21_ProgressReporting ==
    /\ [](InLoop =>
            /\ progress.status \in {"processing", "item"}
            /\ progress.status = "processing" =>
                    ItemsProcessed = 0 /\ progress.num = 0
            /\ progress.status = "item" =>
                /\ progress.num = ItemsProcessed
                /\ progress.den = total
                /\ progress.num <= progress.den)
    /\ [][C21_ProgressStep]_vars

\* two rows done, one saved and one skipped: the bar is at 2/2
C21_Witness ==
    /\ pc = "col_loop"
    /\ progress = Progress(2, 2, "item")
    /\ success = 1
    /\ skipped = 1

(***************************************************************************)
(* C22: in _download_and_save only a network failure (no response, or a    *)
(* status that is not 2xx) is followed by another fetch; a fetch whose     *)
(* body cannot be decoded or saved as an image is a local failure and no   *)
(* further fetch is made for that URL.                                     *)
(***************************************************************************)
C22_LocalFailureStep ==
    (pc = "download" /\ item.fetched = "local_error") => dl'.fetches = dl.fetches

C22_RetryOnlyNetwork == [][C22_LocalFailureStep]_vars

(***************************************************************************)
(* C23: when do_work has returned, on whatever path, no workbook that it   *)
(* opened is still open.                                                   *)
(***************************************************************************)
C23_WorkbookClosed == pc = "finished" => wb # "open"

(***************************************************************************)
(* C24: whenever _convert_vector_to_image returns, with an image or with   *)
(* none and whichever step failed, neither the scratch input nor the       *)
(* sibling .png is left in the output directory.                           *)
(***************************************************************************)
C24_NothingLeft ==
    Returned("_convert_vector_to_image") => fn.out.left = {}

(***************************************************************************)
(* C25: _open_image_data calls the converter only when the raster decode   *)
(* failed and the entry is a vector by its extension (.emf, .wmf, in any   *)
(* case) or by its first four bytes (the EMF signature or one of the two   *)
(* WMF signatures); the converter runs the utilities in their order (sips  *)
(* on macOS only, then magick, then convert) and stops at the first that   *)
(* returns without error; an entry that is not a vector, or for which no   *)
(* utility succeeds, gives none, and the extraction counts it as failed.   *)
(***************************************************************************)
C25_VectorFallback ==
    Returned("_open_image_data") =>
        LET data == fn.in[1]
            c == fn.in[3]
            suffix == ToLower(PathSuffix(fn.in[2]))
            vector ==
                \/ suffix \in {<<".", "e", "m", "f">>, <<".", "w", "m", "f">>}
                \/ /\ data.len >= 4
                   /\ data.header \in {"01000000", "D7CDC69A", "01000900"}
            order == IF c.platform = "darwin"
                     THEN <<"sips", "magick", "convert">>
                     ELSE <<"magick", "convert">>
            ran == fn.out.invoked
            succeeded(u) == c[u] \in {"ok", "ok_no_out"}
        IN  /\ fn.out.called <=> (~data.decodable /\ vector)
            /\ data.decodable => fn.out.result = "image"
            /\ ~fn.out.called => ran = <<>>
            /\ fn.out.called =>
                /\ ran # <<>>
                /\ ran = SubSeq(order, 1, Len(ran))
                /\ \A k \in 1..(Len(ran) - 1) : ~succeeded(ran[k])
                /\ Len(ran) < Len(order) => succeeded(ran[Len(ran)])
                /\ (\A k \in 1..Len(ran) : ~succeeded(ran[k])) =>
                        fn.out.result = "none"
            /\ (~data.decodable /\ ~vector) => fn.out.result = "none"
            /\ fn.out.result \in {"image", "none"}
            /\ fn.out.result = "none" =>
                \A save_ok \in BOOLEAN :
                    AllEntryCounts(fn.out.result, save_ok) =
                        [success |-> 0, failed |-> 1, counter |-> 0]

\* an entry without a vector extension, recognised by its WMF header; on
\* macOS sips fails and magick converts it
C25_Witness ==
    /\ Returned("_open_image_data")
    /\ fn.in[2] = Image2Png
    /\ fn.in[1].header = "D7CDC69A"
    /\ fn.in[3].platform = "darwin"
    /\ fn.out.called
    /\ fn.out.invoked = <<"sips", "magick">>
    /\ fn.out.result = "image"

(***************************************************************************)
(* C26: within a run every successful save, of an entry, of an embedded    *)
(* image or of a download, creates a file at a path that was not in the    *)
(* output directory just before it: the directory only grows, by one new   *)
(* path per save, so no file that was there is overwritten and no two      *)
(* images of the run share a path, also when their base names are equal.   *)
(***************************************************************************)
\* the step writes a new file at `path` and touches no other
SavesTo(path) == path \notin files /\ files' = files \cup {path}

C26_SaveStep ==
    /\ InLoop => files \subseteq files'
    /\ (InLoop /\ files' # files) => \E path \in files' : SavesTo(path)
    /\ (pc \in {"all_loop", "col_loop"} /\ success' = success + 1) =>
            SavesTo(last_saved'.path)
    /\ (pc = "download" /\ dl'.result = "true") => SavesTo(dl.filepath)
    /\ (pc = "after_download" /\ success' = success + 1) =>
            /\ last_saved'.path = dl.filepath
            /\ dl.filepath \in files
    /\ pc' = "download" => dl'.filepath \notin files'

C26_NoOverwrite == [][C26_SaveStep]_vars

\* the template has no {n}: the second image named t went to t_1.png, beside
\* the first
C26_Witness ==
    /\ InLoop
    /\ success >= 2
    /\ last_saved.name = <<"t">>
    /\ last_saved.path = SuffixedPath(<<"t">>, 1, image_format)
    /\ PlainPath(<<"t">>, image_format) \in files
    /\ last_saved.path \in files

(***************************************************************************)
(* C27: in BY_COLUMN mode every processed row adds one to exactly one of   *)
(* success, failed and skipped: between two rows the three counts sum to   *)
(* the number of rows processed so far, and the summary of a run that was  *)
(* not cancelled has them sum to its total.                                *)
(***************************************************************************)
C27_OutcomePartition ==
    /\ pc = "col_loop" => success + failed + skipped = row_idx - start_row
    /\ (~mode_all /\ summary.done /\ ~cancelled) =>
            summary.success + summary.failed + summary.skipped = summary.total

(***************************************************************************)
(* C28: a run that has entered an extraction loop leaves it through        *)
(* exactly one summary, followed by a progress report of 100, whether the  *)
(* loop ran out or the stop flag ended it; the total of the summary is the *)
(* number of candidates (archive entries, or rows from the start row to    *)
(* the last row), so after a cancellation the counts of the summary sum to *)
(* less than its total can.  Every loop reaches its summary.               *)
(***************************************************************************)
C28_SummaryStep ==
    /\ (InLoop /\ ~InLoop') =>
        /\ pc' = "finished"
        /\ ~summary.done /\ summary'.done
        /\ progress'.status = "summary"
        /\ progress'.num = progress'.den
        /\ summary'.total = IF mode_all THEN Len(media_files)
                            ELSE max_row - start_row + 1
        /\ summary'.success = success
        /\ summary'.failed = failed
        /\ summary'.skipped = skipped
        /\ IF cancelled'
           THEN stop_requested /\ ItemsProcessed < summary'.total
           ELSE ItemsProcessed = summary'.total
    /\ InLoop' => ~summary'.done
    /\ (summary.done /\ pc' # "idle") =>
        /\ summary' = summary
        /\ progress' = progress

C28_SummaryAfterCancellation ==
    /\ [][C28_SummaryStep]_vars
    /\ (InLoop ~> (summary.done /\ progress.num = progress.den))

\* a run cancelled after its first item was saved: the summary reports two
\* candidates and one success
C28_Witness ==
    /\ pc = "finished"
    /\ cancelled
    /\ summary.done
    /\ summary.total = 2
    /\ summary.success = 1
    /\ summary.success + summary.failed + summary.skipped < summary.total
    /\ progress = Progress(1, 1, "summary")

(***************************************************************************)
(* C29: there is at most one worker.  While a run is active a click on     *)
(* start does nothing: no worker is started, and neither the progress bar  *)
(* nor the stop flag is reset.  When the worker has finished, by a return  *)
(* of do_work or by an exception that escaped it, the shell goes back to   *)
(* idle (running false), where a run can be started again.                 *)
(***************************************************************************)
C29_WorkerStep ==
    /\ (pc' = "do_work" /\ pc # "do_work") =>
        /\ ~running /\ pc = "idle"
        /\ running'
    /\ (running /\ running') =>
        /\ pc' = "do_work" => pc = "do_work"
        /\ stop_requested => stop_requested'
        /\ progress' # progress => progress'.status # "processing"
    /\ (running /\ ~running') => pc = "finished"
    /\ (pc = "finished" /\ pc' # pc) => (pc' = "idle" /\ ~running')

C29_SingleWorker ==
    /\ [][C29_WorkerStep]_vars
    /\ [](running <=> pc # "idle")
    /\ [](pc = "finished" => ENABLED _on_done)
    /\ [](~running => ENABLED _on_start)

\* the shell is idle again after a run that ended before any loop, by a
\* failed load or an escaped exception, and a run can be started
C29_Witness ==
    /\ pc = "idle"
    /\ ~running
    /\ progress.status = "processing"
    /\ ENABLED _on_start

(***************************************************************************)
(* C30: the stop flag is lowered by the start of a run, before its worker  *)
(* runs, and by nothing else; it is raised only while a run is active, a   *)
(* stop click on the idle shell changing nothing.  So a run begins with    *)
(* the flag down whatever was clicked during or after the runs before it,  *)
(* a run is cancelled only by a flag raised during that run, and the flag  *)
(* is never lowered while a run is active.                                 *)
(***************************************************************************)
C30_StopStep ==
    /\ (~running /\ running') => (~stop_requested' /\ pc' = "do_work")
    /\ (~stop_requested /\ stop_requested') => (running /\ running')
    /\ (stop_requested /\ ~stop_requested') => (~running /\ running')
    /\ (should_stop /\ pc \in {"all_loop", "col_loop", "download"}) =>
        /\ files' = files
        /\ success' = success
        /\ ~FinishesItem
    /\ (~cancelled /\ cancelled') => (stop_requested /\ running)

C30_StopFlagScoping ==
    /\ [][C30_StopStep]_vars
    /\ [](pc = "idle" => ~ENABLED _on_stop)

\* the flag raised during a run is still up on the idle shell after that
\* run's summary; the next start is enabled and lowers it
C30_Witness ==
    /\ pc = "idle"
    /\ ~running
    /\ stop_requested
    /\ progress.status = "summary"
    /\ ENABLED _on_start

====
